---- MODULE Spec2Model ----
(***************************************************************************)
(* Model of the ent graph store (server crate): the MVCC visibility layer  *)
(* (db/transaction.rs), the object / edge / metadata-history repository    *)
(* (db/graph.rs), the schema registry (db/schema.rs), the bearer-token     *)
(* gate (auth/mod.rs) and the gRPC facade (server/graph_server.rs,         *)
(* server/schema_server.rs).                                               *)
(*                                                                         *)
(* The relational engine is PostgreSQL at its default isolation level      *)
(* (READ COMMITTED), which is what sqlx's pool.begin() opens:              *)
(*   - a statement sees the rows committed when it starts, plus the        *)
(*     changes of its own transaction;                                     *)
(*   - an UPDATE that meets a row changed by an in-progress transaction    *)
(*     waits for that transaction, then re-evaluates its WHERE clause on   *)
(*     the newest version of that row only; rows inserted meanwhile are    *)
(*     not seen by the waiting statement;                                  *)
(*   - a transaction id (xid) is assigned the first time the transaction   *)
(*     needs one; pg_current_xact_id() assigns one even to a read;         *)
(*   - pg_current_snapshot() is the statement's snapshot: xmax is one past *)
(*     the highest completed xid, xip_list the in-progress xids below it.  *)
(***************************************************************************)
EXTENDS Integers, Sequences, FiniteSets, TLC

\* ---------------------------------------------------------------- bounds
\* Transaction ids handed out by the engine are 1..MaxXid.
MaxXid == 9
\* The same, in the specification of the write path alone.
WriteXids == 8
\* The same, in the specification of the ownership rule.
AccessXids == 7
\* The same, in the specification of the repository used as a library.
RepositoryXids == 3
\* The same, in the specification of the creating and reading clients.
ServiceXids == 2
\* The same, in the specification of the owner's reads of objects and edges.
SnapshotXids == 7
\* The same, in the specification of schema validation.
SchemaXids == 7
\* The same, in the specification of reads that carry any zookie.
ZookieXids == 2
\* The same, in the specification of reads with every wire requirement.
ParseXids == 3
\* The same, in the specification of CreateSchema with sampled names.
NameXids == 5
\* The same, in the specification of updates of two objects.
FrameXids == 4
\* The same, in the specification of commits, failures and cancellations.
AtomicXids == 3
\* Library calls: the xids handed to is_visible and mark_complete are
\* 0..MaxSnapshotXid, and a snapshot gets at most MaxCompleted completions.
MaxSnapshotXid == 4
MaxCompleted == 2
\* A caller holds at most MaxRevisions revisions.
MaxRevisions == 3
\* Write RPC handlers (tokio tasks) that may be in flight at the same time.
NumHandlers == 2
\* Rows the objects table may hold.
MaxObjects == 2
\* The specifications that follow a single object stop at one.
OneObject == 1
\* Rows the triples table may hold.
MaxEdges == 2
\* The specifications that follow a single edge stop at one.
OneEdge == 1
\* Xids the engine hands out while two edges are written and read.
EdgeXids == 5

\* Xid8::max(), the "not deleted" sentinel (2^63 - 1 in the source; the model
\* uses the largest value TLC's integers hold, far above MaxXid).
MAX_TXID == 2147483647

Handlers == 1..NumHandlers
Principals == {"alice", "bob"}
\* A bearer token is abstracted to what the verifier makes of it: a valid
\* token is named by its sub claim, "missing" is a request with no
\* authorization header, "invalid" a token validate_token rejects.
Tokens == Principals \cup {"missing", "invalid"}
\* JSON metadata bodies.
Metadata == {"m0", "m1"}
TypeNames == {"basic"}
\* Type names that a CreateSchema request can carry besides those: empty, with
\* a leading digit, with a character outside the pattern.
InvalidTypeNames == {"", "9x", "a-b"}
\* More names a CreateSchema request can carry: one letter, letters with a
\* digit and an underscore, a leading underscore, a space inside, one digit.
SampledTypeNames == {"x", "B2_x", "_a", "a b", "2"}
\* The characters of each type name, one representative per class.
Spelling ==
    [n \in TypeNames \cup InvalidTypeNames \cup SampledTypeNames |->
        CASE n = "basic" -> <<"a", "a", "a", "a", "a">>
          [] n = ""      -> <<>>
          [] n = "9x"    -> <<"0", "a">>
          [] n = "a-b"   -> <<"a", "-", "a">>
          [] n = "x"     -> <<"a">>
          [] n = "B2_x"  -> <<"a", "0", "_", "a">>
          [] n = "_a"    -> <<"_", "a">>
          [] n = "a b"   -> <<"a", "-", "a">>
          [] n = "2"     -> <<"0">>]
Relations == {"rel"}
\* JSON-Schema bodies, each abstracted to the set of metadata it accepts.
SchemaBodies == {{"m0"}}
\* The schema string of a CreateSchema request, abstracted to what the two
\* parsers make of it: whether it is JSON, whether the JSON compiles as a
\* JSON-Schema, and the metadata the compiled schema accepts.
SchemaTexts ==
    {[text |-> "{ invalid json }", json |-> FALSE, compiles |-> FALSE, accepts |-> {}],
     [text |-> "{\"type\": 17}", json |-> TRUE, compiles |-> FALSE, accepts |-> {}]}
    \cup {[text |-> "schema", json |-> TRUE, compiles |-> TRUE, accepts |-> b] :
             b \in SchemaBodies}

VARIABLES
    nextXid,                    \* engine: next transaction id to assign
    latestCompletedXid,         \* engine: highest committed or aborted xid
    nextObjectId,               \* sequence behind objects.id
    nextEdgeId,                 \* sequence behind triples.id
    objects,                    \* committed rows of table objects
    object_metadata_history,    \* committed rows of table object_metadata_history
    triples,                    \* committed rows of table triples
    schemata,                   \* committed rows of table schemata
    relation_tuple_transaction, \* committed rows of the transaction log
    h,                          \* per handler: the write RPC in flight
    resp,                       \* the response most recently sent to a client
    minted,                     \* history: the committed writes, in commit order
    toolchain,                  \* library: the std release the crate is built with
    source_text,                \* library: the string handed to PgSnapshot::from_str
    held_snapshot,              \* library: the PgSnapshot the caller holds
    completed_xids,             \* library: the xids passed to mark_complete so far
    held_revisions,             \* library: the Revision values the caller holds
    encoded,                    \* library: the token last encoded
    decoded,                    \* library: the result of the last from_zookie
    JWT_VALIDATOR,              \* process: the OnceCell holding the token verifier
    verified                    \* process: the result of the last call into auth/mod.rs

\* The state of the service, and the values a caller of db/transaction.rs
\* as a library holds.
service == <<nextXid, latestCompletedXid, nextObjectId, nextEdgeId, objects,
             object_metadata_history, triples, schemata,
             relation_tuple_transaction, h, resp, minted>>

library == <<toolchain, source_text, held_snapshot, completed_xids,
             held_revisions, encoded, decoded>>

process == <<JWT_VALIDATOR, verified>>

vars == <<nextXid, latestCompletedXid, nextObjectId, nextEdgeId, objects,
          object_metadata_history, triples, schemata,
          relation_tuple_transaction, h, resp, minted,
          toolchain, source_text, held_snapshot, completed_xids,
          held_revisions, encoded, decoded, JWT_VALIDATOR, verified>>

tables == <<objects, object_metadata_history, triples, schemata,
            relation_tuple_transaction>>

\* ---------------------------------------------------------------- helpers
Max(S) == CHOOSE x \in S : \A y \in S : y <= x
Min(S) == CHOOSE x \in S : \A y \in S : x <= y

RECURSIVE SortedSeq(_)
SortedSeq(S) == IF S = {} THEN <<>> ELSE <<Min(S)>> \o SortedSeq(S \ {Min(S)})

NoSnapshot == [xmin |-> 0, xmax |-> 0, xip_list |-> <<>>]
NoRevision == [snapshot |-> NoSnapshot, optional_xid |-> 0]
NoZookie == [value |-> <<>>]

\* ------------------------------------------------- db/transaction.rs
\* Revision::to_zookie: the serialized (snapshot, optional_xid) pair.
to_zookie(revision) ==
    [value |-> <<revision.snapshot.xmin, revision.snapshot.xmax,
                 revision.snapshot.xip_list, revision.optional_xid>>]

\* A decoder that loses the xid.
from_zookie_without_xid(zookie) ==
    IF Len(zookie.value) = 4
    THEN [ok |-> TRUE,
          revision |-> [snapshot |-> [xmin |-> zookie.value[1],
                                      xmax |-> zookie.value[2],
                                      xip_list |-> zookie.value[3]],
                        optional_xid |-> 0]]
    ELSE [ok |-> FALSE, revision |-> NoRevision]

\* Revision::from_zookie: decodes the serialized pair; no snapshot rule is
\* checked by the deserializer.
from_zookie(zookie) ==
    IF Len(zookie.value) = 4
    THEN [ok |-> TRUE,
          revision |-> [snapshot |-> [xmin |-> zookie.value[1],
                                      xmax |-> zookie.value[2],
                                      xip_list |-> zookie.value[3]],
                        optional_xid |-> zookie.value[4]]]
    ELSE [ok |-> FALSE, revision |-> NoRevision]

\* A comparison that is not strict.
greater_than_or_equal(a, b) == a.snapshot.xmax >= b.snapshot.xmax

\* Revision::greater_than
greater_than(a, b) == a.snapshot.xmax > b.snapshot.xmax

\* Revision::snapshot_string, the text handed to $n::text::pg_snapshot.
snapshot_string(revision) ==
    <<revision.snapshot.xmin, revision.snapshot.xmax, revision.snapshot.xip_list>>

\* The engine's input function of pg_snapshot, run by the cast
\* $n::text::pg_snapshot: the text is taken iff 0 < xmin <= xmax and the xip
\* values lie in [xmin, xmax) and never decrease.
pg_snapshot_in(text) ==
    /\ text[1] > 0 /\ text[2] > 0
    /\ text[1] <= text[2]
    /\ \A i \in 1..Len(text[3]) :
          /\ text[1] <= text[3][i] /\ text[3][i] < text[2]
          /\ i > 1 => text[3][i - 1] <= text[3][i]

\* The engine's pg_snapshot_xmax over the text form of a snapshot.
pg_snapshot_xmax(text) == text[2]

\* The xids of the write transactions in progress, other than self's.
InProgress(self) == {h[q].xid : q \in {r \in Handlers \ {self} : h[r].xid # 0}}

\* The engine's pg_current_snapshot() for a statement of handler self that
\* starts now (the snapshot column's default in the transaction log).
pg_current_snapshot(self) ==
    LET xmax == latestCompletedXid + 1
        xip  == {x \in InProgress(self) : x < xmax}
    IN  [xmin |-> IF xip = {} THEN xmax ELSE Min(xip),
         xmax |-> xmax,
         xip_list |-> SortedSeq(xip)]

\* Transaction::revision
revision(transaction) ==
    [snapshot |-> transaction.snapshot, optional_xid |-> transaction.xid]

\* ------------------------------------------------- PgSnapshot as a library
\* A string is the sequence of its characters.
Digits == <<"0", "1", "2", "3", "4", "5", "6", "7", "8", "9">>

IsDigit(c) == \E d \in 1..10 : Digits[d] = c

DigitValue(c) == (CHOOSE d \in 1..10 : Digits[d] = c) - 1

\* u64::MAX in decimal, 18446744073709551615.
U64_MAX_DIGITS == <<"1", "8", "4", "4", "6", "7", "4", "4", "0", "7", "3", "7",
                    "0", "9", "5", "5", "1", "6", "1", "5">>

\* Decimal digit strings of equal length, compared as numbers.
RECURSIVE DigitsLeq(_, _)
DigitsLeq(a, b) ==
    IF a = <<>> THEN TRUE
    ELSE IF DigitValue(Head(a)) < DigitValue(Head(b)) THEN TRUE
    ELSE IF DigitValue(Head(a)) > DigitValue(Head(b)) THEN FALSE
    ELSE DigitsLeq(Tail(a), Tail(b))

RECURSIVE StripZeros(_)
StripZeros(s) ==
    IF Len(s) > 1 /\ Head(s) = "0" THEN StripZeros(Tail(s)) ELSE s

\* The number a digit string denotes.
RECURSIVE DecimalValue(_)
DecimalValue(s) ==
    IF s = <<>> THEN 0
    ELSE 10 * DecimalValue(SubSeq(s, 1, Len(s) - 1)) + DigitValue(s[Len(s)])

\* str::parse::<u64>: an optional '+', then one or more digits, whose value
\* must fit 64 bits; leading zeros are taken.
parse_u64(s) ==
    LET body == IF s # <<>> /\ Head(s) = "+" THEN Tail(s) ELSE s
        sig  == StripZeros(body)
    IN  IF body = <<>> \/ \E i \in 1..Len(body) : ~IsDigit(body[i])
        THEN [ok |-> FALSE, value |-> 0]
        ELSE IF \/ Len(sig) > Len(U64_MAX_DIGITS)
                \/ Len(sig) = Len(U64_MAX_DIGITS) /\ ~DigitsLeq(sig, U64_MAX_DIGITS)
        THEN [ok |-> FALSE, value |-> 0]
        ELSE [ok |-> TRUE, value |-> DecimalValue(sig)]

\* u64::to_string
RECURSIVE u64_to_string(_)
u64_to_string(n) ==
    IF n < 10 THEN <<Digits[n + 1]>>
    ELSE Append(u64_to_string(n \div 10), Digits[(n % 10) + 1])

\* str::split(sep): the parts between the separators, empty parts included.
RECURSIVE split(_, _)
split(s, sep) ==
    IF \A i \in 1..Len(s) : s[i] # sep THEN <<s>>
    ELSE LET k == CHOOSE i \in 1..Len(s) :
                     s[i] = sep /\ \A j \in 1..(i - 1) : s[j] # sep
         IN  <<SubSeq(s, 1, k - 1)>> \o split(SubSeq(s, k + 1, Len(s)), sep)

\* [String]::join(sep)
RECURSIVE join(_, _)
join(parts, sep) ==
    IF Len(parts) = 0 THEN <<>>
    ELSE IF Len(parts) = 1 THEN parts[1]
    ELSE parts[1] \o <<sep>> \o join(Tail(parts), sep)

\* What the caller holds when no snapshot was parsed.
NoParse == [ok |-> FALSE, xmin |-> 0, xmax |-> 0, xip_list |-> <<>>]

\* PgSnapshot::from_str: three parts split at ':', xmin and xmax parsed as u64,
\* the third part empty or u64s split at ','. Nothing else is checked.
from_str(s) ==
    LET parts == split(s, ":")
    IN  IF Len(parts) # 3 THEN NoParse
        ELSE LET xmin  == parse_u64(parts[1])
                 xmax  == parse_u64(parts[2])
                 items == IF parts[3] = <<>> THEN <<>> ELSE split(parts[3], ",")
                 xips  == [i \in 1..Len(items) |-> parse_u64(items[i])]
             IN  IF ~xmin.ok \/ ~xmax.ok \/ \E i \in 1..Len(xips) : ~xips[i].ok
                 THEN NoParse
                 ELSE [ok |-> TRUE, xmin |-> xmin.value, xmax |-> xmax.value,
                       xip_list |-> [i \in 1..Len(xips) |-> xips[i].value]]

\* PgSnapshot::to_string
to_string(snap) ==
    u64_to_string(snap.xmin) \o <<":">> \o u64_to_string(snap.xmax) \o <<":">>
        \o join([i \in 1..Len(snap.xip_list) |-> u64_to_string(snap.xip_list[i])], ",")

\* The std releases whose slice::binary_search differ.
Toolchains == {"1.52", "1.82"}

\* slice::binary_search of std 1.52 to 1.81: [found, pos].
RECURSIVE binary_search_1_52(_, _, _, _)
binary_search_1_52(list, x, left, right) ==
    IF left >= right THEN [found |-> FALSE, pos |-> left]
    ELSE LET mid == left + ((right - left) \div 2)
         IN  IF list[mid + 1] < x THEN binary_search_1_52(list, x, mid + 1, right)
             ELSE IF list[mid + 1] > x THEN binary_search_1_52(list, x, left, mid)
             ELSE [found |-> TRUE, pos |-> mid]

\* slice::binary_search of std 1.82 and later.
RECURSIVE binary_search_1_82(_, _, _, _)
binary_search_1_82(list, x, base, size) ==
    IF size > 1
    THEN LET half == size \div 2
             mid  == base + half
         IN  binary_search_1_82(list, x,
                                IF list[mid + 1] > x THEN base ELSE mid,
                                size - half)
    ELSE IF list[base + 1] = x THEN [found |-> TRUE, pos |-> base]
         ELSE [found |-> FALSE,
               pos |-> base + (IF list[base + 1] < x THEN 1 ELSE 0)]

\* xip_list.binary_search(&xid) as the build's std runs it; positions count
\* from 0.
binary_search(list, x) ==
    IF toolchain = "1.52" THEN binary_search_1_52(list, x, 0, Len(list))
    ELSE IF Len(list) = 0 THEN [found |-> FALSE, pos |-> 0]
    ELSE binary_search_1_82(list, x, 0, Len(list))

\* Vec::remove(pos), pos counted from 0.
remove(list, pos) ==
    [i \in 1..(Len(list) - 1) |-> IF i <= pos THEN list[i] ELSE list[i + 1]]

\* PgSnapshot::is_visible
is_visible(snap, xid) ==
    IF xid < snap.xmin THEN TRUE
    ELSE IF xid >= snap.xmax THEN FALSE
    ELSE ~binary_search(snap.xip_list, xid).found

\* A mark_complete that leaves xmin where it was when the list runs empty.
mark_complete_keeping_xmin(snap, xid) ==
    LET xmax == IF xid >= snap.xmax THEN xid + 1 ELSE snap.xmax
        hit  == binary_search(snap.xip_list, xid)
        xip  == IF hit.found THEN remove(snap.xip_list, hit.pos) ELSE snap.xip_list
    IN  [snap EXCEPT !.xmax = xmax, !.xip_list = xip]

\* PgSnapshot::mark_complete
mark_complete(snap, xid) ==
    LET xmax == IF xid >= snap.xmax THEN xid + 1 ELSE snap.xmax
        hit  == binary_search(snap.xip_list, xid)
        xip  == IF hit.found THEN remove(snap.xip_list, hit.pos) ELSE snap.xip_list
    IN  [snap EXCEPT !.xmax = xmax, !.xip_list = xip,
                     !.xmin = IF xip = <<>> THEN xmax ELSE snap.xmin]

\* ------------------------------------------------- consistency modes
FullMode == [kind |-> "Full", revision |-> NoRevision]
MinimizeLatencyMode == [kind |-> "MinimizeLatency", revision |-> NoRevision]

\* The wire ConsistencyRequirement: a tagged choice, or absent.
Requirement(kind, zookie) == [kind |-> kind, zookie |-> zookie]

\* A parser that falls back to the default when the zookie does not decode.
parse_consistency_requirement_lenient(req) ==
    CASE req.kind = "FullConsistency" -> [ok |-> TRUE, mode |-> FullMode]
      [] req.kind = "MinimizeLatency" -> [ok |-> TRUE, mode |-> MinimizeLatencyMode]
      [] req.kind \in {"AtLeastAsFresh", "ExactlyAt"} /\ from_zookie(req.zookie).ok ->
            [ok |-> TRUE,
             mode |-> [kind |-> req.kind,
                       revision |-> from_zookie(req.zookie).revision]]
      [] OTHER -> [ok |-> TRUE, mode |-> MinimizeLatencyMode]

\* GraphServer::parse_consistency_requirement
parse_consistency_requirement(req) ==
    CASE req.kind = "FullConsistency" -> [ok |-> TRUE, mode |-> FullMode]
      [] req.kind = "MinimizeLatency" -> [ok |-> TRUE, mode |-> MinimizeLatencyMode]
      [] req.kind \in {"AtLeastAsFresh", "ExactlyAt"} ->
            IF from_zookie(req.zookie).ok
            THEN [ok |-> TRUE,
                  mode |-> [kind |-> req.kind,
                            revision |-> from_zookie(req.zookie).revision]]
            ELSE [ok |-> FALSE, mode |-> MinimizeLatencyMode]
      [] OTHER -> [ok |-> TRUE, mode |-> MinimizeLatencyMode]

\* A visibility predicate whose upper end is closed: a row stays visible at
\* the tid that deleted it.
RowVisible_closed(row, mode, cur) ==
    CASE mode.kind = "Full" ->
            row.created_xid <= cur /\ row.deleted_xid > cur
      [] mode.kind = "MinimizeLatency" -> TRUE
      [] OTHER ->
            /\ row.created_xid <= pg_snapshot_xmax(snapshot_string(mode.revision))
            /\ row.deleted_xid >= pg_snapshot_xmax(snapshot_string(mode.revision))

\* The visibility predicate every read of db/graph.rs puts on a row; cur is
\* pg_current_xact_id() of the reading statement.
RowVisible(row, mode, cur) ==
    CASE mode.kind = "Full" ->
            row.created_xid <= cur /\ row.deleted_xid > cur
      [] mode.kind = "MinimizeLatency" -> TRUE
      [] OTHER ->
            /\ row.created_xid <= pg_snapshot_xmax(snapshot_string(mode.revision))
            /\ row.deleted_xid > pg_snapshot_xmax(snapshot_string(mode.revision))

\* The statement of a read fails in the cast of its snapshot parameter.
CastFails(mode) ==
    /\ mode.kind \in {"AtLeastAsFresh", "ExactlyAt"}
    /\ ~pg_snapshot_in(snapshot_string(mode.revision))

\* Number of xids a read statement consumes: the Full predicate calls
\* pg_current_xact_id(), and every pool statement is its own transaction.
StatementXids(mode) == IF mode.kind = "Full" THEN 1 ELSE 0

\* ------------------------------------------------- auth/mod.rs
\* AuthenticatedRequest::user_id: the sub claim of a verified bearer token.
user_id(token) ==
    IF token \in Principals
    THEN [ok |-> TRUE, sub |-> token]
    ELSE [ok |-> FALSE, sub |-> "none"]

\* RSA public keys in PEM form, and a string that is no PEM.
Keys == {"k1", "k2", "k3"}
Pems == Keys \cup {"not a pem"}
Issuers == {"ent", "other"}

\* The OnceCell before any set, and the validator main.rs sets before it
\* serves.
Unset == [decoding_key |-> "none", issuer |-> "none"]
Served == [decoding_key |-> "k1", issuer |-> "ent"]
NoCall == [call |-> "none", key |-> "none", issuer |-> "none", expired |-> FALSE,
           status |-> "none", sub |-> "none"]

\* The authorization header of a request: absent, or a JWT signed with the
\* private half of a key, with its iss and sub claims and whether exp is past.
Bearers ==
    {[present |-> FALSE, key |-> "none", iss |-> "none", sub |-> "none",
      expired |-> FALSE]}
    \cup [present : {TRUE}, key : Keys, iss : Issuers, sub : Principals,
          expired : BOOLEAN]

\* JwtValidator::new: DecodingKey::from_rsa_pem fails on a string that is no PEM.
JwtValidator_new(public_key_pem, issuer) ==
    IF public_key_pem \in Keys
    THEN [ok |-> TRUE, validator |-> [decoding_key |-> public_key_pem, issuer |-> issuer]]
    ELSE [ok |-> FALSE, validator |-> Unset]

\* An init that stores the new validator over the one in place.
JwtValidator_init_replacing(public_key_pem, issuer) ==
    LET made == JwtValidator_new(public_key_pem, issuer)
    IN  /\ JWT_VALIDATOR' = IF made.ok THEN made.validator ELSE JWT_VALIDATOR
        /\ verified' = [call |-> "init", key |-> public_key_pem, issuer |-> issuer,
                        expired |-> FALSE,
                        status |-> IF made.ok THEN "Ok" ELSE "Err", sub |-> "none"]
        /\ UNCHANGED <<service, library>>

\* JwtValidator::init: OnceCell::set fails when the cell holds a value.
JwtValidator_init(public_key_pem, issuer) ==
    LET made == JwtValidator_new(public_key_pem, issuer)
        set  == made.ok /\ JWT_VALIDATOR = Unset
    IN  /\ JWT_VALIDATOR' = IF set THEN made.validator ELSE JWT_VALIDATOR
        /\ verified' = [call |-> "init", key |-> public_key_pem, issuer |-> issuer,
                        expired |-> FALSE,
                        status |-> IF set THEN "Ok" ELSE "Err", sub |-> "none"]
        /\ UNCHANGED <<service, library>>

\* JwtValidator::validate_token: RS256 signature under the key, the issuer,
\* and exp (Validation::new checks it).
validate_token(validator, token) ==
    /\ token.key = validator.decoding_key
    /\ token.iss = validator.issuer
    /\ ~token.expired

\* AuthenticatedRequest::user_id on a request with the header.
AuthenticatedRequest_user_id(header) ==
    LET Result(status, sub) ==
            [call |-> "user_id", key |-> header.key, issuer |-> header.iss,
             expired |-> header.expired, status |-> status, sub |-> sub]
    IN  /\ verified' =
              IF ~header.present THEN Result("Unauthenticated", "none")
              ELSE IF JWT_VALIDATOR = Unset THEN Result("Internal", "none")
              ELSE IF ~validate_token(JWT_VALIDATOR, header)
              THEN Result("Unauthenticated", "none")
              ELSE Result("Ok", header.sub)
        /\ UNCHANGED <<service, library, JWT_VALIDATOR>>

\* ------------------------------------------------- db/schema.rs
\* A validation that accepts every body.
validate_object_any(type_name, metadata) == TRUE

\* SchemaRepository::validate_object
validate_object(type_name, metadata) ==
    LET found == {s \in schemata : s.type_name = type_name}
    IN  IF found = {} THEN TRUE
        ELSE \A s \in found : metadata \in s.schema

\* ------------------------------------------------- db/graph.rs, reads
\* An ownership test that asks only whether the object exists.
check_object_ownership_exists(object_id, user) ==
    IF {o \in objects : o.id = object_id} = {} THEN "Err" ELSE "true"

\* GraphRepository::check_object_ownership: "true", "false", or "Err" when
\* fetch_one finds no row.
check_object_ownership(object_id, user) ==
    LET rows == {o \in objects : o.id = object_id}
    IN  IF rows = {} THEN "Err"
        ELSE IF \A o \in rows : o.user_id = user THEN "true" ELSE "false"

\* The objects row get_object selects under the mode.
ObjectRows(id, mode, cur) ==
    {o \in objects : o.id = id /\ RowVisible(o, mode, cur)}

\* The metadata versions get_object's second statement selects; under
\* MinimizeLatency, ORDER BY created_xid DESC LIMIT 1.
MetadataRows(id, mode, cur) ==
    LET rows == {v \in object_metadata_history :
                    v.object_id = id /\ RowVisible(v, mode, cur)}
    IN  IF mode.kind = "MinimizeLatency"
        THEN {v \in rows : \A w \in rows : w.created_xid <= v.created_xid}
        ELSE rows

\* GraphRepository::get_object: the results the two statements can produce,
\* the first running as xid x (where the mode assigns one).  fetch_one takes
\* whichever matching row the engine returns first.
get_object(id, mode, x) ==
    LET n     == StatementXids(mode)
        objs  == ObjectRows(id, mode, x)
        metas == MetadataRows(id, mode, x + n)
    IN  IF objs = {}
        THEN {[status |-> "None", id |-> id, type_name |-> "none",
               metadata |-> "none", xids |-> n]}
        ELSE IF metas = {}
        THEN {[status |-> "Err", id |-> id, type_name |-> "none",
               metadata |-> "none", xids |-> 2 * n]}
        ELSE {[status |-> "Some", id |-> id, type_name |-> o.type_name,
               metadata |-> v.metadata, xids |-> 2 * n] :
                 o \in objs, v \in metas}

\* GraphRepository::get_edges: every triple matching the key under the mode.
get_edges(from_id, relation, mode, cur) ==
    {t \in triples : /\ t.from_id = from_id
                     /\ t.relation = relation
                     /\ RowVisible(t, mode, cur)}

\* GraphRepository::get_edge: LIMIT 1 of the same selection, as a set of the
\* rows the engine may return.
get_edge(from_id, relation, mode, cur) == get_edges(from_id, relation, mode, cur)

\* ------------------------------------------------- responses
NoRequirement == Requirement("absent", NoZookie)

Reply(rpc, token, object_id, req, status, metadata, objs, zookie, store) ==
    [rpc |-> rpc, token |-> token, object_id |-> object_id, requirement |-> req,
     status |-> status, metadata |-> metadata, objects |-> objs,
     revision |-> zookie, store |-> store]

\* The zookies clients hold: the revisions returned by committed writes.
HeldZookies == {to_zookie(minted[i].revision) : i \in 1..Len(minted)}

\* The consistency requirements a client can send.
Requirements ==
    {Requirement("FullConsistency", NoZookie),
     Requirement("MinimizeLatency", NoZookie),
     NoRequirement}
    \cup {Requirement(k, z) : k \in {"AtLeastAsFresh", "ExactlyAt"}, z \in HeldZookies}

\* A held zookie decoded, altered in xmax or in xid, and encoded again.
Tampered(zookie) ==
    {[value |-> [zookie.value EXCEPT ![2] = @ + 1]],
     [value |-> [zookie.value EXCEPT ![4] = @ + 1]]}

\* Tokens that decode to a snapshot with xmin > xmax, with an xip_list that is
\* not sorted, that repeats a value, that holds a value outside [xmin, xmax).
BrokenZookies ==
    {[value |-> <<2, 1, <<>>, 1>>],
     [value |-> <<1, 3, <<2, 1>>, 3>>],
     [value |-> <<1, 3, <<1, 1>>, 3>>],
     [value |-> <<1, 2, <<2>>, 2>>]}

\* The zookies a client can put together: those it holds, those it tampered
\* with, broken ones, and one that is no encoding of anything.
ClientZookies ==
    HeldZookies \cup UNION {Tampered(z) : z \in HeldZookies}
        \cup BrokenZookies \cup {NoZookie}

ZookieRequirements ==
    {Requirement(k, z) : k \in {"AtLeastAsFresh", "ExactlyAt"}, z \in ClientZookies}

\* A read that ran n statements with fresh xids: the engine's counters after.
ReadXids(n) ==
    /\ nextXid' = nextXid + n
    /\ latestCompletedXid' = IF n = 0 THEN latestCompletedXid ELSE nextXid + n - 1

\* A handler that answers without touching anything but the response.
Answer(r) ==
    /\ resp' = r
    /\ UNCHANGED <<library, process, nextXid, latestCompletedXid, nextObjectId, nextEdgeId, tables,
                   h, minted>>

\* A read handler that answers after n statements with fresh xids.
AnswerRead(r, n) ==
    /\ resp' = r
    /\ ReadXids(n)
    /\ UNCHANGED <<library, process, nextObjectId, nextEdgeId, tables, h, minted>>

\* ------------------------------------------------- server/graph_server.rs, reads
\* GraphService::get_object
GraphService_get_object(token, object_id, req) ==
    LET auth == user_id(token)
        cons == parse_consistency_requirement(req)
        own  == check_object_ownership(object_id, auth.sub)
        R(status, metadata, store) ==
            Reply("GetObject", token, object_id, req, status, metadata, {},
                  NoZookie, store)
    IN  IF ~auth.ok THEN Answer(R("Unauthenticated", "none", FALSE))
        ELSE IF ~cons.ok THEN Answer(R("InvalidArgument", "none", FALSE))
        ELSE IF own = "Err" THEN Answer(R("Internal", "none", TRUE))
        ELSE IF own = "false" THEN Answer(R("PermissionDenied", "none", TRUE))
        ELSE IF CastFails(cons.mode) THEN Answer(R("Internal", "none", TRUE))
        ELSE \E r \in get_object(object_id, cons.mode, nextXid) :
                CASE r.status = "Some" -> AnswerRead(R("OK", r.metadata, TRUE), r.xids)
                  [] r.status = "None" -> AnswerRead(R("NotFound", "none", TRUE), r.xids)
                  [] OTHER -> AnswerRead(R("Internal", "none", TRUE), r.xids)

\* GraphService::get_edge: the target object of the first matching edge.
GraphService_get_edge(token, object_id, edge_type, req) ==
    LET cons == parse_consistency_requirement(req)
        n    == StatementXids(cons.mode)
        R(status, objs, store) ==
            Reply("GetEdge", token, object_id, req, status, "none", objs,
                  NoZookie, store)
    IN  IF ~cons.ok THEN Answer(R("InvalidArgument", {}, FALSE))
        ELSE IF CastFails(cons.mode) THEN Answer(R("Internal", {}, TRUE))
        ELSE IF get_edge(object_id, edge_type, cons.mode, nextXid) = {}
        THEN AnswerRead(R("NotFound", {}, TRUE), n)
        ELSE \E edge \in get_edge(object_id, edge_type, cons.mode, nextXid) :
             \E r \in get_object(edge.to_id, cons.mode, nextXid + n) :
                CASE r.status = "Some" ->
                        AnswerRead(R("OK", {[edge_id |-> edge.id, id |-> r.id,
                                             metadata |-> r.metadata]}, TRUE),
                                   n + r.xids)
                  [] r.status = "None" -> AnswerRead(R("NotFound", {}, TRUE), n + r.xids)
                  [] OTHER -> AnswerRead(R("Internal", {}, TRUE), n + r.xids)

\* The loop of GraphService::get_edges over the edges still to visit: the
\* outcomes [objects, xids, err] of fetching each target in turn, the next
\* statement running as xid x.
RECURSIVE FanOut(_, _, _)
FanOut(edges, mode, x) ==
    IF edges = {} THEN {[objects |-> {}, xids |-> 0, err |-> FALSE]}
    ELSE LET edge == CHOOSE e \in edges : \A f \in edges : e.id <= f.id
         IN  UNION {
               IF r.status = "Err"
               THEN {[objects |-> {}, xids |-> r.xids, err |-> TRUE]}
               ELSE {[objects |-> rest.objects \cup
                                    (IF r.status = "Some"
                                     THEN {[edge_id |-> edge.id, id |-> r.id,
                                            metadata |-> r.metadata]}
                                     ELSE {}),
                      xids |-> r.xids + rest.xids,
                      err |-> rest.err] :
                        rest \in FanOut(edges \ {edge}, mode, x + r.xids)}
               : r \in get_object(edge.to_id, mode, x)}

\* GraphService::get_edges: the target objects of all matching edges.
GraphService_get_edges(token, object_id, edge_type, req) ==
    LET cons == parse_consistency_requirement(req)
        n    == StatementXids(cons.mode)
        R(status, objs, store) ==
            Reply("GetEdges", token, object_id, req, status, "none", objs,
                  NoZookie, store)
    IN  IF ~cons.ok THEN Answer(R("InvalidArgument", {}, FALSE))
        ELSE IF CastFails(cons.mode) THEN Answer(R("Internal", {}, TRUE))
        ELSE \E out \in FanOut(get_edges(object_id, edge_type, cons.mode, nextXid),
                               cons.mode, nextXid + n) :
                IF out.err
                THEN AnswerRead(R("Internal", {}, TRUE), n + out.xids)
                ELSE AnswerRead(R("OK", out.objects, TRUE), n + out.xids)

\* ------------------------------------------------- write handlers
Idle ==
    [pc |-> "idle", rpc |-> "none", token |-> "none", user |-> "none",
     type_name |-> "none", object_id |-> 0, to_id |-> 0, relation |-> "none",
     edge_id |-> 0, metadata |-> "none", xid |-> 0, snapshot |-> NoSnapshot,
     cand |-> {}, marked |-> {}]

\* Entry of GraphRepository::create_object: nothing is done before pool.begin().
create_object(token, user, type_name, metadata) ==
    [Idle EXCEPT !.pc = "begin", !.rpc = "CreateObject", !.token = token,
                 !.user = user, !.type_name = type_name, !.metadata = metadata]

\* Entry of GraphRepository::update_object.
update_object(token, user, object_id, metadata) ==
    [Idle EXCEPT !.pc = "begin", !.rpc = "UpdateObject", !.token = token,
                 !.user = user, !.object_id = object_id, !.metadata = metadata]

\* Entry of GraphRepository::create_edge.
create_edge(token, user, from_id, relation, to_id, metadata) ==
    [Idle EXCEPT !.pc = "begin", !.rpc = "CreateEdge", !.token = token,
                 !.user = user, !.object_id = from_id, !.relation = relation,
                 !.to_id = to_id, !.metadata = metadata]

\* The handler calls into the repository; nothing else changes.
Enter(self, call) ==
    /\ h' = [h EXCEPT ![self] = call]
    /\ UNCHANGED <<library, process, nextXid, latestCompletedXid, nextObjectId, nextEdgeId, tables,
                   resp, minted>>

\* A request is served by a free handler; the free handlers are
\* interchangeable, so the one with the lowest index takes it.
FreeHandler(self) ==
    /\ h[self].pc = "idle"
    /\ \A q \in Handlers : q < self => h[q].pc # "idle"

\* GraphService::create_object up to the repository call: authentication and
\* schema validation.
GraphService_create_object(self, token, type_name, metadata) ==
    LET auth == user_id(token)
        R(status, store) ==
            Reply("CreateObject", token, 0, NoRequirement, status, "none", {},
                  NoZookie, store)
    IN  /\ FreeHandler(self)
        /\ IF ~auth.ok THEN Answer(R("Unauthenticated", FALSE))
           ELSE IF ~validate_object(type_name, metadata)
           THEN Answer(R("InvalidArgument", TRUE))
           ELSE /\ nextObjectId <= MaxObjects
                /\ Enter(self, create_object(token, auth.sub, type_name, metadata))

\* GraphService::create_edge up to the repository call: authentication only.
GraphService_create_edge(self, token, from_id, relation, to_id, metadata) ==
    LET auth == user_id(token)
        R(status, store) ==
            Reply("CreateEdge", token, from_id, NoRequirement, status, "none", {},
                  NoZookie, store)
    IN  /\ FreeHandler(self)
        /\ IF ~auth.ok THEN Answer(R("Unauthenticated", FALSE))
           ELSE /\ nextEdgeId <= MaxEdges
                /\ Enter(self, create_edge(token, auth.sub, from_id, relation,
                                           to_id, metadata))

\* GraphService::update_object up to the repository call: authentication,
\* ownership check, get_object at Full for the type, schema validation.
GraphService_update_object(self, token, object_id, metadata) ==
    LET auth == user_id(token)
        own  == check_object_ownership(object_id, auth.sub)
        R(status, store) ==
            Reply("UpdateObject", token, object_id, NoRequirement, status, "none",
                  {}, NoZookie, store)
    IN  /\ FreeHandler(self)
        /\ IF ~auth.ok THEN Answer(R("Unauthenticated", FALSE))
           ELSE IF own = "Err" THEN Answer(R("Internal", TRUE))
           ELSE IF own = "false" THEN Answer(R("PermissionDenied", TRUE))
           ELSE \E r \in get_object(object_id, FullMode, nextXid) :
                  /\ ReadXids(r.xids)
                  /\ UNCHANGED <<library, process, nextObjectId, nextEdgeId, tables, minted>>
                  /\ IF r.status = "None"
                     THEN resp' = R("NotFound", TRUE) /\ h' = h
                     ELSE IF r.status = "Err"
                     THEN resp' = R("Internal", TRUE) /\ h' = h
                     ELSE IF ~validate_object(r.type_name, metadata)
                     THEN resp' = R("InvalidArgument", TRUE) /\ h' = h
                     ELSE /\ resp' = resp
                          /\ h' = [h EXCEPT ![self] =
                                     update_object(token, auth.sub, object_id, metadata)]

\* GraphRepository::update_object called by a user of the library: no check
\* precedes the transaction.
GraphRepository_update_object(self, user, object_id, metadata) ==
    /\ FreeHandler(self)
    /\ Enter(self, update_object(user, user, object_id, metadata))

\* ------------------------------------------------- db/graph.rs, writes
\* pool.begin() and Transaction::create: the INSERT into the transaction log
\* takes the statement's snapshot, then draws the transaction's xid.
Transaction_create(self) ==
    /\ h[self].pc = "begin"
    /\ h' = [h EXCEPT ![self].pc = "opened",
                      ![self].xid = nextXid,
                      ![self].snapshot = pg_current_snapshot(self)]
    /\ nextXid' = nextXid + 1
    /\ UNCHANGED <<library, process, latestCompletedXid, nextObjectId, nextEdgeId, tables, resp, minted>>

\* A statement of the open transaction that changes only its own pending state.
Local(self, next) ==
    /\ h' = [h EXCEPT ![self] = next]
    /\ UNCHANGED <<library, process, nextXid, latestCompletedXid, nextObjectId, nextEdgeId, tables,
                   resp, minted>>

\* create_object: INSERT INTO objects ... RETURNING id.
create_object_insert_object(self) ==
    /\ h[self].pc = "opened" /\ h[self].rpc = "CreateObject"
    /\ nextObjectId <= MaxObjects
    /\ h' = [h EXCEPT ![self].pc = "object_inserted",
                      ![self].object_id = nextObjectId]
    /\ nextObjectId' = nextObjectId + 1
    /\ UNCHANGED <<library, process, nextXid, latestCompletedXid, nextEdgeId, tables, resp, minted>>

\* create_object: INSERT INTO object_metadata_history.
create_object_insert_metadata(self) ==
    /\ h[self].pc = "object_inserted"
    /\ Local(self, [h[self] EXCEPT !.pc = "inserted"])

\* Every version of the object, whatever its deleted_xid: the UPDATE without
\* "AND deleted_xid = $3".
AllVersions(object_id) ==
    {v.created_xid : v \in {w \in object_metadata_history : w.object_id = object_id}}

\* The committed metadata versions of an object that are not marked deleted,
\* keyed by created_xid: what the UPDATE's WHERE clause selects.
CurrentVersions(object_id) ==
    {v.created_xid : v \in {w \in object_metadata_history :
                               w.object_id = object_id /\ w.deleted_xid = MAX_TXID}}

\* The rows handler self holds a row lock on: the versions its uncommitted
\* UPDATE changed.
LockedBy(q, object_id) ==
    IF h[q].rpc = "UpdateObject" /\ h[q].object_id = object_id
    THEN h[q].marked ELSE {}

LockedByOthers(self, object_id) ==
    UNION {LockedBy(q, object_id) : q \in Handlers \ {self}}

\* update_object: UPDATE object_metadata_history SET deleted_xid = $1 WHERE
\* object_id = $2 AND deleted_xid = MAX.  The statement fixes its candidate
\* rows from its snapshot; if another transaction holds one of them it waits.
update_object_mark_deleted(self) ==
    /\ h[self].pc = "opened" /\ h[self].rpc = "UpdateObject"
    /\ LET rows == CurrentVersions(h[self].object_id)
       IN  IF rows \cap LockedByOthers(self, h[self].object_id) = {}
           THEN Local(self, [h[self] EXCEPT !.pc = "marked", !.marked = rows])
           ELSE Local(self, [h[self] EXCEPT !.pc = "mark_waiting", !.cand = rows])

\* The waiting UPDATE goes on once the lock holders have ended: each candidate
\* row is re-read in its newest committed version and the WHERE clause is
\* evaluated again on it; rows inserted since the statement began are not seen.
update_object_mark_deleted_resume(self) ==
    /\ h[self].pc = "mark_waiting"
    /\ h[self].cand \cap LockedByOthers(self, h[self].object_id) = {}
    /\ Local(self, [h[self] EXCEPT
                      !.pc = "marked",
                      !.cand = {},
                      !.marked = h[self].cand \cap CurrentVersions(h[self].object_id)])

\* update_object: INSERT INTO object_metadata_history.
update_object_insert_metadata(self) ==
    /\ h[self].pc = "marked"
    /\ Local(self, [h[self] EXCEPT !.pc = "version_inserted"])

\* The transaction of handler self ends (commit or rollback): its xid is
\* completed and its row locks are gone.
Completed(self) == Max({latestCompletedXid, h[self].xid})

\* An error return out of the repository: the sqlx transaction is dropped,
\* which rolls it back, and the facade maps the error to Internal.
Fail(self) ==
    /\ h' = [h EXCEPT ![self] = Idle]
    /\ latestCompletedXid' = Completed(self)
    /\ resp' = Reply(h[self].rpc, h[self].token, h[self].object_id, NoRequirement,
                     "Internal", "none", {}, NoZookie, TRUE)
    /\ UNCHANGED <<library, process, nextXid, nextObjectId, nextEdgeId, tables, minted>>

\* update_object: UPDATE objects SET updated_at = NOW(), user_id = $1 WHERE
\* id = $2 RETURNING ...; waits while another transaction holds the row, and
\* fetch_one fails when no row has the id.
update_object_touch_object(self) ==
    /\ h[self].pc = "version_inserted"
    /\ \A q \in Handlers \ {self} :
          ~(h[q].pc = "touched" /\ h[q].object_id = h[self].object_id)
    /\ IF {o \in objects : o.id = h[self].object_id} = {}
       THEN Fail(self)
       ELSE Local(self, [h[self] EXCEPT !.pc = "touched"])

\* create_edge: INSERT INTO triples ... RETURNING id, ...
create_edge_insert(self) ==
    /\ h[self].pc = "opened" /\ h[self].rpc = "CreateEdge"
    /\ nextEdgeId <= MaxEdges
    /\ h' = [h EXCEPT ![self].pc = "edge_inserted", ![self].edge_id = nextEdgeId]
    /\ nextEdgeId' = nextEdgeId + 1
    /\ UNCHANGED <<library, process, nextXid, latestCompletedXid, nextObjectId, tables, resp, minted>>

\* tx.commit() and the facade's response: the transaction-log row becomes
\* visible with the rest, and the revision goes out as a zookie.
Commit(self, id) ==
    /\ relation_tuple_transaction' = relation_tuple_transaction \cup
            {[xid |-> h[self].xid, snapshot |-> h[self].snapshot]}
    /\ latestCompletedXid' = Completed(self)
    /\ minted' = Append(minted, [rpc |-> h[self].rpc, id |-> id,
                                 user |-> h[self].user,
                                 metadata |-> h[self].metadata,
                                 revision |-> revision(h[self])])
    /\ resp' = Reply(h[self].rpc, h[self].token, id, NoRequirement, "OK",
                     h[self].metadata, {}, to_zookie(revision(h[self])), TRUE)
    /\ h' = [h EXCEPT ![self] = Idle]
    /\ UNCHANGED <<library, process, nextXid, nextObjectId, nextEdgeId, schemata>>

\* A version stamped with the snapshot's upper bound instead of the
\* transaction's own xid.
NewVersion_at_xmax(self) ==
    [object_id |-> h[self].object_id, metadata |-> h[self].metadata,
     created_xid |-> h[self].snapshot.xmax, deleted_xid |-> MAX_TXID]

\* The metadata version a write inserts.
NewVersion(self) ==
    [object_id |-> h[self].object_id, metadata |-> h[self].metadata,
     created_xid |-> h[self].xid, deleted_xid |-> MAX_TXID]

\* create_object: tx.commit().
create_object_commit(self) ==
    /\ h[self].pc = "inserted"
    /\ objects' = objects \cup
            {[id |-> h[self].object_id, type_name |-> h[self].type_name,
              user_id |-> h[self].user, created_xid |-> h[self].xid,
              deleted_xid |-> MAX_TXID]}
    /\ object_metadata_history' = object_metadata_history \cup {NewVersion(self)}
    /\ triples' = triples
    /\ Commit(self, h[self].object_id)

\* update_object: tx.commit().  The marked versions get deleted_xid = xid, the
\* new version appears, and the objects row carries the caller as user_id.
update_object_commit(self) ==
    /\ h[self].pc = "touched"
    /\ object_metadata_history' =
            {IF v.object_id = h[self].object_id /\ v.created_xid \in h[self].marked
             THEN [v EXCEPT !.deleted_xid = h[self].xid]
             ELSE v : v \in object_metadata_history} \cup {NewVersion(self)}
    /\ objects' = {IF o.id = h[self].object_id
                   THEN [o EXCEPT !.user_id = h[self].user]
                   ELSE o : o \in objects}
    /\ triples' = triples
    /\ Commit(self, h[self].object_id)

\* The triples table takes a row: the table has a serial id, no unique key
\* over (from_id, relation, to_id) and no foreign key to objects.
triples_insert(row) == triples \cup {row}

\* The row create_edge's INSERT writes.
NewEdge(self) ==
    [id |-> h[self].edge_id, from_id |-> h[self].object_id,
     relation |-> h[self].relation, to_id |-> h[self].to_id,
     metadata |-> h[self].metadata, user_id |-> h[self].user,
     created_xid |-> h[self].xid, deleted_xid |-> MAX_TXID]

\* A create_edge that leaves the table alone when it holds an edge with the
\* same endpoints and relation (INSERT ... ON CONFLICT DO NOTHING).
create_edge_commit_once(self) ==
    /\ h[self].pc = "edge_inserted"
    /\ triples' = IF \E t \in triples : /\ t.from_id = h[self].object_id
                                        /\ t.relation = h[self].relation
                                        /\ t.to_id = h[self].to_id
                  THEN triples
                  ELSE triples_insert(NewEdge(self))
    /\ UNCHANGED <<objects, object_metadata_history>>
    /\ Commit(self, h[self].edge_id)

\* create_edge: tx.commit().
create_edge_commit(self) ==
    /\ h[self].pc = "edge_inserted"
    /\ triples' = triples_insert(NewEdge(self))
    /\ UNCHANGED <<objects, object_metadata_history>>
    /\ Commit(self, h[self].edge_id)

\* A cancellation after which the transaction-log row stays, as it would had
\* Transaction::create run on the pool.
rollback_autocommit(self) ==
    /\ h[self].pc # "idle"
    /\ h' = [h EXCEPT ![self] = Idle]
    /\ latestCompletedXid' = Completed(self)
    /\ relation_tuple_transaction' =
            IF h[self].xid = 0 THEN relation_tuple_transaction
            ELSE relation_tuple_transaction \cup
                    {[xid |-> h[self].xid, snapshot |-> h[self].snapshot]}
    /\ UNCHANGED <<library, process, nextXid, nextObjectId, nextEdgeId, objects,
                   object_metadata_history, triples, schemata, resp, minted>>

\* The request is cancelled (client gone, deadline) while the handler is
\* suspended: its future is dropped and the open transaction rolls back.
rollback(self) ==
    /\ h[self].pc # "idle"
    /\ h' = [h EXCEPT ![self] = Idle]
    /\ latestCompletedXid' = Completed(self)
    /\ UNCHANGED <<library, process, nextXid, nextObjectId, nextEdgeId, tables, resp, minted>>

\* ------------------------------------------------- server/schema_server.rs
\* A type name the pattern always matches.
validate_type_name_any(type_name) == TRUE

\* A pattern without the rule for the first character: ^[a-zA-Z0-9_]+$
validate_type_name_any_start(type_name) ==
    LET c == Spelling[type_name]
    IN  /\ Len(c) > 0
        /\ \A i \in 1..Len(c) : c[i] \in {"a", "0", "_"}

\* SchemaServer::validate_type_name: ^[a-zA-Z][a-zA-Z0-9_]*$
validate_type_name(type_name) ==
    LET c == Spelling[type_name]
    IN  /\ Len(c) > 0
        /\ c[1] = "a"
        /\ \A i \in 2..Len(c) : c[i] \in {"a", "0", "_"}

\* serde_json::from_str on the schema string, and Validator::new on its value.
serde_json_from_str(schema) == schema.json
Validator_new(schema_json) == schema_json.json /\ schema_json.compiles

\* The unique index on schemata.type_name refuses the row.
schemata_unique_violation(type_name) == \E s \in schemata : s.type_name = type_name

\* A create_schema whose INSERT replaces the body of a registered type
\* (ON CONFLICT (type_name) DO UPDATE).
SchemaService_create_schema_upsert(token, type_name, schema) ==
    LET R(status) ==
            Reply("CreateSchema", token, 0, NoRequirement, status, "none", {},
                  NoZookie, TRUE)
    IN  IF type_name = "" \/ ~validate_type_name(type_name)
        THEN Answer(R("InvalidArgument"))
        ELSE IF ~serde_json_from_str(schema) \/ ~Validator_new(schema)
        THEN Answer(R("Internal"))
        ELSE
        /\ ReadXids(1)
        /\ resp' = R("OK")
        /\ schemata' = {s \in schemata : s.type_name # type_name}
                          \cup {[type_name |-> type_name, schema |-> schema.accepts,
                                 xmin |-> nextXid]}
        /\ UNCHANGED <<library, process, nextObjectId, nextEdgeId, objects, object_metadata_history,
                       triples, relation_tuple_transaction, h, minted>>

\* SchemaService::create_schema with SchemaRepository::create_schema: one
\* INSERT on the pool; type_name is unique in schemata. xmin is the row's
\* system column: the xid of the inserting statement.
SchemaService_create_schema(token, type_name, schema) ==
    LET R(status) ==
            Reply("CreateSchema", token, 0, NoRequirement, status, "none", {},
                  NoZookie, TRUE)
    IN  IF type_name = "" \/ ~validate_type_name(type_name)
        THEN Answer(R("InvalidArgument"))
        ELSE IF ~serde_json_from_str(schema) \/ ~Validator_new(schema)
        THEN Answer(R("Internal"))
        ELSE
        /\ ReadXids(1)
        /\ IF schemata_unique_violation(type_name)
           THEN resp' = R("Internal") /\ schemata' = schemata
           ELSE /\ resp' = R("OK")
                /\ schemata' = schemata \cup {[type_name |-> type_name,
                                              schema |-> schema.accepts,
                                              xmin |-> nextXid]}
        /\ UNCHANGED <<library, process, nextObjectId, nextEdgeId, objects, object_metadata_history,
                       triples, relation_tuple_transaction, h, minted>>

\* ------------------------------------------------- the system
ObjectIds == 1..OneObject

Init ==
    /\ nextXid = 1
    /\ latestCompletedXid = 0
    /\ nextObjectId = 1
    /\ nextEdgeId = 1
    /\ objects = {}
    /\ object_metadata_history = {}
    /\ triples = {}
    /\ schemata = {}
    /\ relation_tuple_transaction = {}
    /\ h = [p \in Handlers |-> Idle]
    /\ resp = Reply("none", "none", 0, NoRequirement, "none", "none", {}, NoZookie, FALSE)
    /\ minted = <<>>
    /\ toolchain = "1.82"
    /\ source_text = <<>>
    /\ held_snapshot = NoParse
    /\ completed_xids = <<>>
    /\ held_revisions = <<>>
    /\ encoded = NoZookie
    /\ decoded = [ok |-> FALSE, revision |-> NoRevision]
    /\ JWT_VALIDATOR = Served
    /\ verified = NoCall

\* The engine has handed out no xid above limit.
Within(limit) == nextXid' <= limit + 1

\* pool.begin() and Transaction::create of any write in flight.
Transactions(limit) == \E self \in Handlers : Transaction_create(self) /\ Within(limit)

\* CreateObject called with the tokens of callers, and the statements of its
\* transaction.
ObjectCreatesUpTo(callers, limit) ==
    \/ \E self \in Handlers, t \in callers, ty \in TypeNames, m \in Metadata :
          /\ GraphService_create_object(self, t, ty, m)
          /\ (user_id(t).ok /\ validate_object(ty, m)) => nextObjectId <= limit
    \/ \E self \in Handlers : create_object_insert_object(self) /\ nextObjectId <= limit
    \/ \E self \in Handlers : create_object_insert_metadata(self)
    \/ \E self \in Handlers : create_object_commit(self)

\* The same, while the store holds no object.
ObjectCreates(callers) == ObjectCreatesUpTo(callers, OneObject)

\* The statements of update_object's transaction.
UpdateSteps ==
    \/ \E self \in Handlers : update_object_mark_deleted(self)
    \/ \E self \in Handlers : update_object_mark_deleted_resume(self)
    \/ \E self \in Handlers : update_object_insert_metadata(self)
    \/ \E self \in Handlers : update_object_touch_object(self)
    \/ \E self \in Handlers : update_object_commit(self)

\* UpdateObject called with the tokens of callers.
ObjectUpdates(callers, limit) ==
    \/ \E self \in Handlers, t \in callers, id \in ObjectIds, m \in Metadata :
          GraphService_update_object(self, t, id, m) /\ Within(limit)
    \/ UpdateSteps

\* GraphRepository::update_object called directly, with any principal.
RepositoryUpdates ==
    \/ \E self \in Handlers, user \in Principals, id \in ObjectIds, m \in Metadata :
          GraphRepository_update_object(self, user, id, m)
    \/ UpdateSteps

\* CreateEdge called with the tokens of callers, while the store holds fewer
\* than limit edges.
EdgeWritesUpTo(callers, limit) ==
    \/ \E self \in Handlers, t \in callers, from \in ObjectIds, rel \in Relations,
          to \in ObjectIds, m \in Metadata :
          /\ GraphService_create_edge(self, t, from, rel, to, m)
          /\ user_id(t).ok => nextEdgeId <= limit
    \/ \E self \in Handlers : create_edge_insert(self) /\ nextEdgeId <= limit
    \/ \E self \in Handlers : create_edge_commit(self)

\* CreateEdge called with the tokens of callers, once.
EdgeWrites(callers) == EdgeWritesUpTo(callers, OneEdge)

\* GetObject called with the tokens of callers.
ObjectReads(callers, limit) ==
    \E t \in callers, id \in ObjectIds, req \in Requirements :
        GraphService_get_object(t, id, req) /\ Within(limit)

\* GetEdge and GetEdges called with the tokens of callers.
EdgeReads(callers, limit) ==
    \/ \E t \in callers, id \in ObjectIds, rel \in Relations, req \in Requirements :
          GraphService_get_edge(t, id, rel, req) /\ Within(limit)
    \/ \E t \in callers, id \in ObjectIds, rel \in Relations, req \in Requirements :
          GraphService_get_edges(t, id, rel, req) /\ Within(limit)

\* CreateSchema called with the tokens of callers.
SchemaWrites(callers, limit) ==
    \E t \in callers, ty \in TypeNames \cup InvalidTypeNames, s \in SchemaTexts :
        SchemaService_create_schema(t, ty, s) /\ Within(limit)

\* A request in flight is cancelled.
Cancellation == \E self \in Handlers : rollback(self)

\* The whole service: every RPC, every caller.
Next ==
    \/ Transactions(MaxXid)
    \/ ObjectCreates(Tokens)
    \/ ObjectUpdates(Tokens, MaxXid)
    \/ EdgeWrites(Tokens)
    \/ ObjectReads(Tokens, MaxXid)
    \/ EdgeReads(Tokens, MaxXid)
    \/ SchemaWrites(Tokens, MaxXid)
    \/ Cancellation

Spec == Init /\ [][Next]_vars

\* The write path alone: one principal creating and updating objects from
\* concurrent handlers, requests being cancelled at any point.
NextWrites ==
    \/ Transactions(WriteXids)
    \/ ObjectCreates({"alice"})
    \/ ObjectUpdates({"alice"}, WriteXids)
    \/ Cancellation

SpecWrites == Init /\ [][NextWrites]_vars

\* The write path with the owner's reads.
NextMvcc ==
    \/ Transactions(MaxXid)
    \/ ObjectCreates({"alice"})
    \/ ObjectUpdates({"alice"}, MaxXid)
    \/ ObjectReads({"alice"}, MaxXid)

SpecMvcc == Init /\ [][NextMvcc]_vars

\* Objects written and read by two principals.
NextOwnership ==
    \/ Transactions(AccessXids)
    \/ ObjectCreates(Principals)
    \/ ObjectUpdates(Principals, AccessXids)
    \/ ObjectReads(Principals, AccessXids)

SpecOwnership == Init /\ [][NextOwnership]_vars

\* The repository used as a library: objects created through the service by
\* alice, update_object called with any principal.
NextRepository ==
    \/ Transactions(RepositoryXids)
    \/ ObjectCreates({"alice"})
    \/ RepositoryUpdates

SpecRepository == Init /\ [][NextRepository]_vars

\* Clients that create and read: alice creates objects, bob creates edges and
\* reads, and a client without a valid token calls every RPC but UpdateObject.
NextService ==
    \/ Transactions(ServiceXids)
    \/ ObjectCreates({"alice", "invalid"})
    \/ EdgeWrites({"bob", "invalid"})
    \/ ObjectReads({"bob", "missing"}, ServiceXids)
    \/ EdgeReads({"bob", "missing"}, ServiceXids)
    \/ SchemaWrites({"missing"}, ServiceXids)

SpecService == Init /\ [][NextService]_vars

\* The requirements that pin a read to a revision the client holds.
ExactRequirements == {Requirement("ExactlyAt", z) : z \in HeldZookies}

\* GetObject, GetEdge and GetEdges called at exact revisions with the tokens
\* of callers.
ExactReads(callers) ==
    \/ \E t \in callers, id \in ObjectIds, req \in ExactRequirements :
          GraphService_get_object(t, id, req)
    \/ \E t \in callers, id \in ObjectIds, rel \in Relations, req \in ExactRequirements :
          GraphService_get_edge(t, id, rel, req)
    \/ \E t \in callers, id \in ObjectIds, rel \in Relations, req \in ExactRequirements :
          GraphService_get_edges(t, id, rel, req)

\* One principal writing objects and edges and reading them back at the
\* revisions its writes returned.
NextSnapshot ==
    \/ Transactions(SnapshotXids)
    \/ ObjectCreates({"alice"})
    \/ ObjectUpdates({"alice"}, SnapshotXids)
    \/ EdgeWrites({"alice"})
    \/ ExactReads({"alice"})

SpecSnapshot == Init /\ [][NextSnapshot]_vars

\* Reads carrying any zookie, called with the tokens of callers.
ZookieReads(callers) ==
    \/ \E t \in callers, id \in ObjectIds, req \in ZookieRequirements :
          GraphService_get_object(t, id, req)
    \/ \E t \in callers, id \in ObjectIds, rel \in Relations, req \in ZookieRequirements :
          GraphService_get_edge(t, id, rel, req)
    \/ \E t \in callers, id \in ObjectIds, rel \in Relations, req \in ZookieRequirements :
          GraphService_get_edges(t, id, rel, req)

\* A client that creates an object and an edge and reads them with the
\* zookies it got, with altered ones and with broken ones.
NextZookie ==
    \/ Transactions(ZookieXids)
    \/ ObjectCreates({"alice"})
    \/ EdgeWrites({"alice"})
    \/ ZookieReads({"alice"})

SpecZookie == Init /\ [][NextZookie]_vars

\* A client that creates an object and edges to it, before or after the
\* object exists and more than once for the same key, and reads the edges
\* under every consistency requirement.  All bodies are the same: the reads
\* are told apart by the rows they select.
NextEdges ==
    \/ Transactions(EdgeXids)
    \/ \E self \in Handlers, ty \in TypeNames :
          GraphService_create_object(self, "alice", ty, "m0") /\ nextObjectId <= OneObject
    \/ \E self \in Handlers : create_object_insert_object(self) /\ nextObjectId <= OneObject
    \/ \E self \in Handlers : create_object_insert_metadata(self)
    \/ \E self \in Handlers : create_object_commit(self)
    \/ \E self \in Handlers, from \in ObjectIds, rel \in Relations, to \in ObjectIds :
          GraphService_create_edge(self, "alice", from, rel, to, "m0")
    \/ \E self \in Handlers : create_edge_insert(self)
    \/ \E self \in Handlers : create_edge_commit(self)
    \/ EdgeReads({"alice"}, EdgeXids)

SpecEdges == Init /\ [][NextEdges]_vars

\* Every ConsistencyRequirement the wire format can carry: the four choices,
\* the two flags set to false, none at all, and any zookie.
WireRequirements ==
    Requirements \cup ZookieRequirements
        \cup {Requirement("FullConsistency(false)", NoZookie),
              Requirement("MinimizeLatency(false)", NoZookie)}

\* A client that creates an object and reads with every requirement.
NextParse ==
    \/ Transactions(ParseXids)
    \/ ObjectCreates({"alice"})
    \/ \E id \in ObjectIds, req \in WireRequirements :
          GraphService_get_object("alice", id, req) /\ Within(ParseXids)
    \/ \E id \in ObjectIds, rel \in Relations, req \in WireRequirements :
          GraphService_get_edge("alice", id, rel, req) /\ Within(ParseXids)
    \/ \E id \in ObjectIds, rel \in Relations, req \in WireRequirements :
          GraphService_get_edges("alice", id, rel, req) /\ Within(ParseXids)

SpecParse == Init /\ [][NextParse]_vars

\* A client that creates two objects and updates either of them through the
\* repository, its updates overlapping or not.  Objects are created with one
\* body and updated to the other.
NextFrame ==
    \/ Transactions(FrameXids)
    \/ \E self \in Handlers, ty \in TypeNames :
          GraphService_create_object(self, "alice", ty, "m0") /\ nextObjectId <= MaxObjects
    \/ \E self \in Handlers : create_object_insert_object(self)
    \/ \E self \in Handlers : create_object_insert_metadata(self)
    \/ \E self \in Handlers : create_object_commit(self)
    \/ \E self \in Handlers, id \in 1..MaxObjects :
          GraphRepository_update_object(self, "alice", id, "m1")
    \/ UpdateSteps

SpecFrame == Init /\ [][NextFrame]_vars

\* The process from its start: nothing is initialized; init and user_id are
\* called in any order with any key, issuer and header.
InitAuth ==
    /\ nextXid = 1 /\ latestCompletedXid = 0 /\ nextObjectId = 1 /\ nextEdgeId = 1
    /\ objects = {} /\ object_metadata_history = {} /\ triples = {}
    /\ schemata = {} /\ relation_tuple_transaction = {}
    /\ h = [self \in Handlers |-> Idle]
    /\ resp = Reply("none", "none", 0, NoRequirement, "none", "none", {}, NoZookie, FALSE)
    /\ minted = <<>>
    /\ toolchain = "1.82" /\ source_text = <<>> /\ held_snapshot = NoParse
    /\ completed_xids = <<>> /\ held_revisions = <<>> /\ encoded = NoZookie
    /\ decoded = [ok |-> FALSE, revision |-> NoRevision]
    /\ JWT_VALIDATOR = Unset
    /\ verified = NoCall

NextAuth ==
    \/ \E pem \in Pems, issuer \in Issuers : JwtValidator_init(pem, issuer)
    \/ \E header \in Bearers : AuthenticatedRequest_user_id(header)

SpecAuth == InitAuth /\ [][NextAuth]_vars

\* A second well-formed schema, which accepts other metadata than the first.
SampledSchemaTexts ==
    SchemaTexts \cup {[text |-> "{\"const\": \"m1\"}", json |-> TRUE,
                       compiles |-> TRUE, accepts |-> {"m1"}]}

\* A client that registers schemas under every sampled name, more than once.
NextNames ==
    \E n \in TypeNames \cup InvalidTypeNames \cup SampledTypeNames,
       s \in SampledSchemaTexts :
        SchemaService_create_schema("alice", n, s) /\ Within(NameXids)

SpecNames == Init /\ [][NextNames]_vars

\* Every write of the repository, with statements that fail and requests that
\* are cancelled.
NextAtomic ==
    \/ Transactions(AtomicXids)
    \/ ObjectCreates({"alice"})
    \/ RepositoryUpdates
    \/ EdgeWrites({"alice"})
    \/ Cancellation

SpecAtomic == Init /\ [][NextAtomic]_vars

\* Schemas registered while objects are written by their owner, with calls
\* from another principal and calls without a valid token.
NextSchema ==
    \/ Transactions(SchemaXids)
    \/ ObjectCreates({"alice", "invalid"})
    \/ ObjectUpdates({"alice", "bob", "missing"}, SchemaXids)
    \/ SchemaWrites({"alice"}, SchemaXids)

SpecSchema == Init /\ [][NextSchema]_vars

\* ------------------------------------------------- db/transaction.rs as a library
\* The strings a caller hands to PgSnapshot::from_str: three parts, with
\* numerals that are plain, zero-padded, signed, not numeric, empty or past
\* u64::MAX, and lists that are empty, sorted, unsorted, repeating or ending
\* in a comma; and strings of two and of four parts.
XminTexts == {<<"1">>, <<"3">>, <<"0", "1">>, <<"a">>, <<>>}

XmaxTexts ==
    {<<"2">>, <<"4">>, <<"+", "2">>, <<"-", "1">>,
     [U64_MAX_DIGITS EXCEPT ![Len(U64_MAX_DIGITS)] = "6"]}

XipItems == {<<"1">>, <<"2">>, <<"3">>, <<"x">>}

XipTexts ==
    {<<>>, <<"1", ",">>} \cup XipItems
        \cup {join(<<a, b>>, ",") : a \in XipItems, b \in XipItems}

SnapshotTexts ==
    {join(<<a, b, c>>, ":") : a \in XminTexts, b \in XmaxTexts, c \in XipTexts}
        \cup {join(<<a, b>>, ":") : a \in XminTexts, b \in XmaxTexts}
        \cup {join(<<a, b, <<>>, <<>>>>, ":") : a \in XminTexts, b \in XmaxTexts}

LibraryXids == 0..MaxSnapshotXid

\* A caller about to parse a string, on either std.
InitPgSnapshot ==
    /\ nextXid = 1
    /\ latestCompletedXid = 0
    /\ nextObjectId = 1
    /\ nextEdgeId = 1
    /\ objects = {}
    /\ object_metadata_history = {}
    /\ triples = {}
    /\ schemata = {}
    /\ relation_tuple_transaction = {}
    /\ h = [p \in Handlers |-> Idle]
    /\ resp = Reply("none", "none", 0, NoRequirement, "none", "none", {}, NoZookie, FALSE)
    /\ minted = <<>>
    /\ toolchain \in Toolchains
    /\ source_text \in SnapshotTexts
    /\ held_snapshot = NoParse
    /\ completed_xids = <<>>
    /\ held_revisions = <<>>
    /\ encoded = NoZookie
    /\ decoded = [ok |-> FALSE, revision |-> NoRevision]
    /\ JWT_VALIDATOR = Served
    /\ verified = NoCall

\* let snapshot = PgSnapshot::from_str(text)?
PgSnapshot_from_str ==
    /\ ~held_snapshot.ok
    /\ held_snapshot' = from_str(source_text)
    /\ UNCHANGED <<service, process, toolchain, source_text, completed_xids,
                   held_revisions, encoded, decoded>>

\* let snapshot = snapshot.mark_complete(xid)
PgSnapshot_mark_complete(xid) ==
    /\ held_snapshot.ok
    /\ Len(completed_xids) < MaxCompleted
    /\ held_snapshot' = mark_complete(held_snapshot, xid)
    /\ completed_xids' = Append(completed_xids, xid)
    /\ UNCHANGED <<service, process, toolchain, source_text, held_revisions, encoded, decoded>>

NextPgSnapshot ==
    \/ PgSnapshot_from_str
    \/ \E xid \in LibraryXids : PgSnapshot_mark_complete(xid)

SpecPgSnapshot == InitPgSnapshot /\ [][NextPgSnapshot]_vars

\* The revisions a caller can hold: any snapshot, rule-keeping or not, with
\* an xid or without (optional_xid 0 stands for None, as in NoRevision).
Revisions ==
    {[snapshot |-> [xmin |-> xmin, xmax |-> xmax, xip_list |-> xip],
      optional_xid |-> xid] :
        xmin \in 1..2, xmax \in 1..3, xip \in {<<>>, <<1>>}, xid \in 0..1}

\* let r = Revision { snapshot, optional_xid }
Revision_new(r) ==
    /\ Len(held_revisions) < MaxRevisions
    /\ encoded = NoZookie
    /\ held_revisions' = Append(held_revisions, r)
    /\ UNCHANGED <<service, process, toolchain, source_text, held_snapshot, completed_xids,
                   encoded, decoded>>

\* let z = r.to_zookie()?, r the revision built last
Revision_to_zookie ==
    /\ held_revisions # <<>>
    /\ encoded = NoZookie
    /\ encoded' = to_zookie(held_revisions[Len(held_revisions)])
    /\ UNCHANGED <<service, process, toolchain, source_text, held_snapshot, completed_xids,
                   held_revisions, decoded>>

\* Revision::from_zookie(z)
Revision_from_zookie ==
    /\ encoded # NoZookie
    /\ decoded' = from_zookie(encoded)
    /\ UNCHANGED <<service, process, toolchain, source_text, held_snapshot, completed_xids,
                   held_revisions, encoded>>

NextRevision ==
    \/ \E r \in Revisions : Revision_new(r)
    \/ Revision_to_zookie
    \/ Revision_from_zookie

SpecRevision == Init /\ [][NextRevision]_vars

\* ------------------------------------------------- vocabulary of the properties
\* No write RPC is in flight.
Quiescent == \A p \in Handlers : h[p].pc = "idle"

\* The committed metadata versions of an object.
VersionsOf(id) == {v \in object_metadata_history : v.object_id = id}

\* The half-open intervals [created_xid, deleted_xid) of v and w share a tid.
Overlap(v, w) ==
    Max({v.created_xid, w.created_xid}) < Min({v.deleted_xid, w.deleted_xid})

\* The tids of the committed write transactions.
CommittedXids == {r.xid : r \in relation_tuple_transaction}

\* The committed CreateObject and UpdateObject calls on an object, as positions
\* in commit order.
WritesOf(id) ==
    {i \in 1..Len(minted) :
        minted[i].id = id /\ minted[i].rpc \in {"CreateObject", "UpdateObject"}}

UpdatesOf(id) == {i \in WritesOf(id) : minted[i].rpc = "UpdateObject"}

\* ------------------------------------------------- metadata history
\* C1: once the UpdateObject calls on an object have finished, overlapping or
\* not, its metadata versions have pairwise non-overlapping
\* [created_xid, deleted_xid) intervals.
C1_VersionsDisjoint ==
    Quiescent =>
        \A id \in ObjectIds : \A v, w \in VersionsOf(id) :
            v # w => ~Overlap(v, w)

\* C2: in every state, for every object and every committed tid t at or after
\* the object's created_xid, exactly one metadata version has
\* created_xid <= t < deleted_xid.
C2_OneVersionPerTid ==
    \A o \in objects : \A t \in CommittedXids :
        t >= o.created_xid =>
            Cardinality({v \in VersionsOf(o.id) :
                            v.created_xid <= t /\ t < v.deleted_xid}) = 1

\* ------------------------------------------------- reads against writes
\* C3: for an object created with metadata m0 at revision r_initial and
\* updated at least once since, GetObject with ExactlyAt(r_initial) answers m0.
C3_ExactlyAtInitial ==
    \A i \in 1..Len(minted) :
        (/\ minted[i].rpc = "CreateObject"
         /\ UpdatesOf(minted[i].id) # {}
         /\ resp.rpc = "GetObject"
         /\ resp.object_id = minted[i].id
         /\ resp.requirement =
                Requirement("ExactlyAt", to_zookie(minted[i].revision)))
        => resp.status = "OK" /\ resp.metadata = minted[i].metadata

\* C4: with no write in flight, GetObject under Full answers the metadata of
\* the write on the object that committed last.
C4_FullReadsLastCommit ==
    (/\ Quiescent
     /\ resp.rpc = "GetObject"
     /\ resp.requirement.kind = "FullConsistency"
     /\ WritesOf(resp.object_id) # {})
    => /\ resp.status = "OK"
       /\ resp.metadata = minted[Max(WritesOf(resp.object_id))].metadata

\* C5: GetObject with ExactlyAt(r), r the revision a CreateObject or
\* UpdateObject on the object returned, answers the metadata that write wrote.
C5_ExactlyAtOwnWrite ==
    \A i \in 1..Len(minted) :
        (/\ i \in WritesOf(minted[i].id)
         /\ resp.rpc = "GetObject"
         /\ resp.object_id = minted[i].id
         /\ resp.requirement =
                Requirement("ExactlyAt", to_zookie(minted[i].revision)))
        => resp.status = "OK" /\ resp.metadata = minted[i].metadata

\* ------------------------------------------------- ordering of revisions
\* C6: a write that commits after revision r was returned (whether its
\* transaction was opened before or after the write that returned r committed)
\* mints a revision greater than r.
C6_LaterCommitGreater ==
    \A i, j \in 1..Len(minted) :
        i < j => greater_than(minted[j].revision, minted[i].revision)

\* ------------------------------------------------- ownership
\* The principal whose CreateObject call made the object.
Creator(id) ==
    minted[CHOOSE i \in WritesOf(id) : minted[i].rpc = "CreateObject"].user

\* C7: for an object created by P, GetObject and UpdateObject by another
\* principal answer PermissionDenied, whatever the consistency mode, and leave
\* the object and its metadata versions as they were; the same calls by P are
\* not answered with PermissionDenied.
C7_OwnershipEnforced ==
    [][\A o \in objects :
          (/\ resp' # resp
           /\ resp'.rpc \in {"GetObject", "UpdateObject"}
           /\ resp'.object_id = o.id)
          => IF resp'.token # Creator(o.id)
             THEN /\ resp'.status = "PermissionDenied"
                  /\ UNCHANGED <<objects, object_metadata_history, h>>
             ELSE resp'.status # "PermissionDenied"]_vars

\* A principal other than the creator has been denied a GetObject at an exact
\* revision of an object that its creator has updated.
C7_Witness ==
    /\ resp.rpc = "GetObject"
    /\ resp.status = "PermissionDenied"
    /\ resp.requirement.kind = "ExactlyAt"
    /\ UpdatesOf(resp.object_id) # {}
    /\ resp.token # Creator(resp.object_id)

\* C8: in every state the owner stored on an object is the principal that
\* created it, whatever principal update_object was called with.
C8_OwnerIsCreator ==
    \A o \in objects : o.user_id = Creator(o.id)

\* C9: no response to GetObject, GetEdge or GetEdges carries the metadata of
\* an object to a caller other than the object's owner.
C9_MetadataOnlyToOwner ==
    /\ (resp.rpc = "GetObject" /\ resp.status = "OK")
          => resp.token = Creator(resp.object_id)
    /\ resp.rpc \in {"GetEdge", "GetEdges"}
          => \A x \in resp.objects : resp.token = Creator(x.id)

\* C10: a call without an authorization header, or with a token the verifier
\* rejects, is answered Unauthenticated without a read or write of the store.
C10_UnauthenticatedRejected ==
    resp.token \in Tokens \ Principals
        => resp.status = "Unauthenticated" /\ ~resp.store

\* ------------------------------------------------- consistency modes compared
\* The status the facade gives a result of GraphRepository::get_object.
StatusOf(r) ==
    CASE r.status = "Some" -> "OK"
      [] r.status = "None" -> "NotFound"
      [] OTHER -> "Internal"

\* What GetObject would answer for the object under mode, issued now: the
\* (status, metadata) pairs the read can produce.
AnswersNow(id, mode) ==
    {<<StatusOf(r), r.metadata>> : r \in get_object(id, mode, nextXid)}

\* C11: GetObject with AtLeastAsFresh(rev) answers what a FullConsistency read
\* issued at the same point answers: the latest committed metadata, also when
\* the object was updated after rev was minted.
C11_AtLeastAsFreshIsFull ==
    (/\ resp.rpc = "GetObject"
     /\ resp.requirement.kind = "AtLeastAsFresh"
     /\ resp.status \in {"OK", "NotFound", "Internal"})
    => <<resp.status, resp.metadata>> \in AnswersNow(resp.object_id, FullMode)

\* ------------------------------------------------- reads at an exact revision
\* The row is visible at point P.
VisibleAt(row, P) == row.created_xid <= P /\ P < row.deleted_xid

\* The xmax of the snapshot a client's zookie encodes.
PointOf(zookie) == zookie.value[2]

\* The objects row and the metadata versions of an object visible at P.
ObjectAt(id, P) == {o \in objects : o.id = id /\ VisibleAt(o, P)}
VersionsAt(id, P) == {v \in VersionsOf(id) : VisibleAt(v, P)}

\* The edges leaving an object that are visible at P (the model has one relation).
EdgesAt(from_id, P) ==
    {t \in triples : t.from_id = from_id /\ t.relation \in Relations /\ VisibleAt(t, P)}

\* An entry of an edge read's answer is the target of edge t as it is at P.
TargetAt(x, t, P) ==
    /\ x.edge_id = t.id
    /\ x.id = t.to_id
    /\ ObjectAt(t.to_id, P) # {}
    /\ \E v \in VersionsAt(t.to_id, P) : x.metadata = v.metadata

\* C12: a read at ExactlyAt(rev) returns a row iff it matches the key and
\* created_xid <= P < deleted_xid for P = rev.snapshot.xmax; the objects row,
\* its metadata version and the edges are all selected with that one P.
\* (GetObject reaches the read once the ownership check has found the object.)
C12_ExactlyAtPoint ==
    (resp.requirement.kind = "ExactlyAt"
        /\ resp.status \in {"OK", "NotFound", "Internal"}) =>
    LET P == PointOf(resp.requirement.zookie)
        id == resp.object_id
    IN  CASE resp.rpc = "GetObject" /\ (\E o \in objects : o.id = id) ->
                /\ resp.status = "NotFound" <=> ObjectAt(id, P) = {}
                /\ resp.status = "OK" <=>
                        ObjectAt(id, P) # {} /\ VersionsAt(id, P) # {}
                /\ resp.status = "OK" =>
                        \E v \in VersionsAt(id, P) : resp.metadata = v.metadata
          [] resp.rpc = "GetEdges" ->
                /\ \A x \in resp.objects : \E t \in EdgesAt(id, P) : TargetAt(x, t, P)
                /\ resp.status = "OK" =>
                        \A t \in EdgesAt(id, P) :
                            ObjectAt(t.to_id, P) # {} =>
                                \E x \in resp.objects : x.edge_id = t.id
          [] resp.rpc = "GetEdge" ->
                /\ \A x \in resp.objects : \E t \in EdgesAt(id, P) : TargetAt(x, t, P)
                /\ resp.status = "OK" <=> resp.objects # {}
                /\ EdgesAt(id, P) = {} => resp.status = "NotFound"
                /\ resp.status = "NotFound" =>
                        \/ EdgesAt(id, P) = {}
                        \/ \E t \in EdgesAt(id, P) : ObjectAt(t.to_id, P) = {}
          [] OTHER -> TRUE

\* An updated object has been read at the exact revision of its update, the
\* point at which the version before it ends, and an edge has been read at an
\* exact revision.
C12_Witness ==
    /\ resp.rpc = "GetObject"
    /\ resp.requirement.kind = "ExactlyAt"
    /\ resp.status = "OK"
    /\ \E v \in VersionsOf(resp.object_id) :
            v.deleted_xid = PointOf(resp.requirement.zookie)
    /\ triples # {}

\* C13: with no write in flight, GetObject under MinimizeLatency (asked for,
\* or by default) answers the metadata of the write on the object that
\* committed last, in whatever order the tids of the writes were assigned.
C13_MinimizeLatencyReadsLastCommit ==
    (/\ Quiescent
     /\ resp.rpc = "GetObject"
     /\ resp.requirement.kind \in {"MinimizeLatency", "absent"}
     /\ resp.status \in {"OK", "NotFound", "Internal"}
     /\ WritesOf(resp.object_id) # {})
    => /\ resp.status = "OK"
       /\ resp.metadata = minted[Max(WritesOf(resp.object_id))].metadata

\* ------------------------------------------------- schema gatekeeping
\* The schema registered for the type, if any, accepts the metadata.
Accepts(type_name, metadata) ==
    \A sch \in schemata : sch.type_name = type_name => metadata \in sch.schema

\* The type of a stored object.
TypeOf(id) == (CHOOSE o \in objects : o.id = id).type_name

\* The call was rejected as invalid and wrote nothing.
RejectedInvalid(rpc) ==
    /\ resp'.rpc = rpc
    /\ resp'.status = "InvalidArgument"
    /\ UNCHANGED <<tables, h, minted>>

\* C14: CreateObject of a type, and UpdateObject of an object of a type, by an
\* authorized caller go on to their write and succeed iff the schema registered
\* for the type accepts the metadata (every metadata when none is registered);
\* otherwise the answer is InvalidArgument and nothing is written.
C14_SchemaGatekeeping ==
    [][/\ \A self \in Handlers, t \in Principals, ty \in TypeNames, m \in Metadata :
            GraphService_create_object(self, t, ty, m) =>
                IF Accepts(ty, m)
                THEN h'[self].pc = "begin" /\ h'[self].metadata = m
                ELSE RejectedInvalid("CreateObject")
       /\ \A self \in Handlers, t \in Principals, id \in ObjectIds, m \in Metadata :
            (/\ GraphService_update_object(self, t, id, m)
             /\ \E o \in objects : o.id = id /\ o.user_id = t) =>
                IF Accepts(TypeOf(id), m)
                THEN h'[self].pc = "begin" /\ h'[self].metadata = m
                ELSE RejectedInvalid("UpdateObject")
       /\ \A self \in Handlers :
            (h[self].pc # "idle" /\ h'[self].pc = "idle") =>
                /\ resp'.status = "OK"
                /\ resp'.metadata = h[self].metadata
                /\ \E v \in object_metadata_history' :
                      /\ v.object_id = resp'.object_id
                      /\ v.created_xid = h[self].xid
                      /\ v.metadata = h[self].metadata]_vars

\* With a schema registered, an object of its type has been created, an
\* update of it has been rejected as invalid, and another has succeeded.
C14_Witness ==
    /\ schemata # {}
    /\ resp.rpc = "UpdateObject"
    /\ resp.status = "InvalidArgument"
    /\ UpdatesOf(resp.object_id) # {}

\* C15: every stored metadata version has a body accepted by the schema that
\* was registered for its object's type when its created_xid was assigned.
C15_VersionsValid ==
    \A v \in object_metadata_history, sch \in schemata :
        (sch.type_name = TypeOf(v.object_id) /\ sch.xmin < v.created_xid)
            => v.metadata \in sch.schema

\* ------------------------------------------------- rejected writes
\* What a rejected call leaves alone: the store, the sequences and every
\* handler's transaction.
NothingWritten == UNCHANGED <<tables, nextObjectId, nextEdgeId, h, minted>>

\* The engine assigned no xid.
NoXidAssigned == UNCHANGED <<nextXid, latestCompletedXid>>

\* The statuses of authentication, ownership and validation failures.
Rejections == {"Unauthenticated", "PermissionDenied", "InvalidArgument"}

\* The step is a CreateObject or UpdateObject call answered with a rejection.
RejectedWrite ==
    /\ h' = h
    /\ resp'.status \in Rejections
    /\ \/ \E self \in Handlers, t \in Tokens, ty \in TypeNames, m \in Metadata :
            GraphService_create_object(self, t, ty, m)
       \/ \E self \in Handlers, t \in Tokens, id \in ObjectIds, m \in Metadata :
            GraphService_update_object(self, t, id, m)

\* The step is a CreateSchema call with a type name outside the pattern.
InvalidSchemaCall ==
    \E t \in Tokens, ty \in InvalidTypeNames, s \in SchemaTexts :
        SchemaService_create_schema(t, ty, s)

\* C16: a CreateObject or UpdateObject that fails authentication, the
\* ownership check or schema validation, and a CreateSchema that fails
\* type-name validation, assigns no tid and adds or changes no row.
C16_RejectedBeforeTransaction ==
    [][/\ RejectedWrite => (NothingWritten /\ NoXidAssigned)
       /\ InvalidSchemaCall =>
            (resp'.status = "InvalidArgument" /\ NothingWritten /\ NoXidAssigned)]_vars

\* C16 as it holds: such a call opens no write transaction and adds or
\* changes no row; the only xids the engine assigns are those of the Full
\* read that UpdateObject runs before it validates the metadata.
C16_RejectedWritesNothing ==
    [][/\ RejectedWrite =>
            /\ NothingWritten
            /\ \/ NoXidAssigned
               \/ /\ resp'.rpc = "UpdateObject"
                  /\ resp'.status = "InvalidArgument"
                  /\ nextXid' = nextXid + 2
       /\ InvalidSchemaCall =>
            (resp'.status = "InvalidArgument" /\ NothingWritten /\ NoXidAssigned)]_vars

\* An update rejected by the schema of an object that has been updated before,
\* after its Full read drew xids.
C16_Witness ==
    /\ resp.rpc = "UpdateObject"
    /\ resp.status = "InvalidArgument"
    /\ schemata # {}
    /\ \E v \in object_metadata_history : v.deleted_xid # MAX_TXID
    /\ \A self \in Handlers : h[self].pc = "idle"
    /\ nextXid > 1 + Max({0} \cup CommittedXids \cup {sch.xmin : sch \in schemata})

\* ------------------------------------------------- atomicity of writes
\* The xids that rows of the store carry.
XidsInStore ==
    {o.created_xid : o \in objects}
        \cup {v.created_xid : v \in object_metadata_history}
        \cup ({v.deleted_xid : v \in object_metadata_history} \ {MAX_TXID})
        \cup {t.created_xid : t \in triples}

\* The rows that the statements of handler self's transaction wrote are all
\* in the store after the step.
RowsVisible(self) ==
    LET w == h[self]
    IN  /\ \E r \in relation_tuple_transaction' : r.xid = w.xid
        /\ w.rpc = "CreateObject" =>
              /\ \E o \in objects' : o.id = w.object_id /\ o.created_xid = w.xid
        /\ w.rpc \in {"CreateObject", "UpdateObject"} =>
              /\ \E v \in object_metadata_history' :
                    /\ v.object_id = w.object_id /\ v.created_xid = w.xid
                    /\ v.metadata = w.metadata /\ v.deleted_xid = MAX_TXID
        /\ w.rpc = "UpdateObject" =>
              /\ \A c \in w.marked : \E v \in object_metadata_history' :
                    /\ v.object_id = w.object_id /\ v.created_xid = c
                    /\ v.deleted_xid = w.xid
        /\ w.rpc = "CreateEdge" =>
              /\ \E t \in triples' :
                    /\ t.id = w.edge_id /\ t.created_xid = w.xid
                    /\ t.metadata = w.metadata

\* C17: a write is all-or-nothing. The store holds rows of committed
\* transactions only; the step that ends a write either commits it, and all
\* the rows of its statements are in the store, or leaves the store as it was.
C17_AllOrNothing ==
    /\ [](/\ XidsInStore \subseteq CommittedXids
          /\ \A self \in Handlers : h[self].xid \notin XidsInStore \cup CommittedXids)
    /\ [][\A self \in Handlers :
            (h[self].pc # "idle" /\ h'[self].pc = "idle") =>
                IF resp' # resp /\ resp'.status = "OK"
                THEN RowsVisible(self)
                ELSE UNCHANGED tables]_vars

\* An object was created and updated, and a transaction that had drawn its
\* xid ended without committing.
C17_Witness ==
    /\ \A self \in Handlers : h[self].pc = "idle"
    /\ \E id \in ObjectIds : UpdatesOf(id) # {}
    /\ \E x \in 1..(nextXid - 1) : x \notin CommittedXids

\* ------------------------------------------------- missing objects
\* C18: GetObject and UpdateObject by an authenticated caller for an object id
\* that no object has, and GetObject at ExactlyAt a revision older than the
\* object's creation, answer NotFound.
C18_MissingIsNotFound ==
    /\ (/\ resp.rpc \in {"GetObject", "UpdateObject"}
        /\ resp.token \in Principals
        /\ ~\E o \in objects : o.id = resp.object_id)
            => resp.status = "NotFound"
    /\ (/\ resp.rpc = "GetObject"
        /\ resp.requirement.kind = "ExactlyAt"
        /\ \E o \in objects :
              /\ o.id = resp.object_id
              /\ o.user_id = resp.token
              /\ PointOf(resp.requirement.zookie) < o.created_xid)
            => resp.status = "NotFound"

\* ------------------------------------------------- zookies
\* The response answers a read that carried a zookie.
ReadWithZookie ==
    /\ resp.rpc \in {"GetObject", "GetEdge", "GetEdges"}
    /\ resp.requirement.kind \in {"AtLeastAsFresh", "ExactlyAt"}

\* C19: every read that carries, in AtLeastAsFresh or ExactlyAt, a zookie that
\* no earlier write returned is rejected with InvalidArgument.
C19_UnmintedRejected ==
    (ReadWithZookie /\ resp.requirement.zookie \notin HeldZookies)
        => resp.status = "InvalidArgument"

\* The rules of a snapshot: xmin <= xmax, xip_list sorted and unique with
\* every value in [xmin, xmax).
SnapshotRules(snapshot) ==
    /\ snapshot.xmin <= snapshot.xmax
    /\ \A i \in 1..Len(snapshot.xip_list) :
          /\ snapshot.xmin <= snapshot.xip_list[i]
          /\ snapshot.xip_list[i] < snapshot.xmax
          /\ i > 1 => snapshot.xip_list[i - 1] < snapshot.xip_list[i]

\* The token is an encoding of a (snapshot, xid) pair.
Decodes(zookie) == Len(zookie.value) = 4

\* The snapshot the token encodes.
SnapshotOf(zookie) ==
    [xmin |-> zookie.value[1], xmax |-> zookie.value[2], xip_list |-> zookie.value[3]]

\* C20: Revision::from_zookie fails for every token a read carries that is no
\* encoding, or whose decoded snapshot violates the snapshot rules.
C20_DecodeEnforcesRules ==
    (/\ ReadWithZookie
     /\ \/ ~Decodes(resp.requirement.zookie)
        \/ ~SnapshotRules(SnapshotOf(resp.requirement.zookie)))
        => ~from_zookie(resp.requirement.zookie).ok

\* ------------------------------------------------- snapshots
\* The snapshot from_str made of the caller's string.
Parsed == from_str(source_text)

\* The caller holds the snapshot as parsed.
JustParsed == held_snapshot.ok /\ completed_xids = <<>>

\* xid is an element of the list.
Among(list, xid) == \E i \in 1..Len(list) : list[i] = xid

\* Visibility as the data model defines it.
Visible(snap, xid) ==
    \/ xid < snap.xmin
    \/ xid >= snap.xmin /\ xid < snap.xmax /\ ~Among(snap.xip_list, xid)

\* C22: for every snapshot from_str accepts, sorted or not, is_visible(xid)
\* is true when xid < xmin, false when xid >= xmax, and otherwise true iff xid
\* is not in xip_list.
C22_IsVisible ==
    JustParsed =>
        \A xid \in LibraryXids :
            is_visible(held_snapshot, xid) <=> Visible(held_snapshot, xid)

\* C23: an xid visible in an accepted snapshot stays visible after any
\* sequence of mark_complete calls that does not name it.
C23_CompletionKeepsVisible ==
    held_snapshot.ok =>
        \A xid \in LibraryXids :
            (is_visible(Parsed, xid) /\ ~Among(completed_xids, xid))
                => is_visible(held_snapshot, xid)

\* C24: for x in the xip_list of an accepted snapshot, mark_complete(x) yields
\* a snapshot in which x is visible and whose xip_list does not hold x.
C24_CompletedIsVisible ==
    (held_snapshot.ok /\ Len(completed_xids) = 1
        /\ Among(Parsed.xip_list, completed_xids[1]))
        => /\ is_visible(held_snapshot, completed_xids[1])
           /\ ~Among(held_snapshot.xip_list, completed_xids[1])

\* C25: a string that from_str accepts is what to_string makes of the result.
C25_ParseRoundTrip ==
    JustParsed => to_string(held_snapshot) = source_text

\* The list is strictly increasing with every entry in [xmin, xmax).
ListRules(snap) ==
    \A i \in 1..Len(snap.xip_list) :
        /\ snap.xmin <= snap.xip_list[i]
        /\ snap.xip_list[i] < snap.xmax
        /\ i > 1 => snap.xip_list[i - 1] < snap.xip_list[i]

\* Number of ':' in the string.
Colons(s) == Cardinality({i \in 1..Len(s) : s[i] = ":"})

\* The numeral without its sign.
Unsigned(part) == IF part # <<>> /\ Head(part) = "+" THEN Tail(part) ELSE part

\* The part is a decimal numeral, with or without '+', that fits 64 bits.
IsU64(part) ==
    /\ Unsigned(part) # <<>>
    /\ \A i \in 1..Len(Unsigned(part)) : IsDigit(Unsigned(part)[i])
    /\ Len(StripZeros(Unsigned(part))) < Len(U64_MAX_DIGITS)

\* The number the numeral denotes.
NumberOf(part) == DecimalValue(Unsigned(part))

\* The strings of three parts whose numerals are unsigned integers and whose
\* list keeps the rules.
WellFormed(s) ==
    /\ Colons(s) = 2
    /\ LET parts == split(s, ":")
           items == IF parts[3] = <<>> THEN <<>> ELSE split(parts[3], ",")
       IN  /\ IsU64(parts[1]) /\ IsU64(parts[2])
           /\ \A i \in 1..Len(items) : IsU64(items[i])
           /\ \A i \in 1..Len(items) :
                 /\ NumberOf(parts[1]) <= NumberOf(items[i])
                 /\ NumberOf(items[i]) < NumberOf(parts[2])
                 /\ i > 1 => NumberOf(items[i - 1]) < NumberOf(items[i])

\* C26: from_str fails when the string has not three parts, when a numeral is
\* no unsigned 64-bit integer, and when the list is not strictly increasing
\* within [xmin, xmax); it succeeds otherwise.
C26_ParseValidates == Parsed.ok <=> WellFormed(source_text)

\* ------------------------------------------------- revisions
\* The revision the caller built last.
LastRevision == held_revisions[Len(held_revisions)]

\* Two revisions with the same xmin, xmax, xip_list and optional xid.
SameRevision(a, b) ==
    /\ a.snapshot.xmin = b.snapshot.xmin
    /\ a.snapshot.xmax = b.snapshot.xmax
    /\ a.snapshot.xip_list = b.snapshot.xip_list
    /\ a.optional_xid = b.optional_xid

Held == {held_revisions[i] : i \in 1..Len(held_revisions)}

VisibleUnder(row, req) ==
    CASE req.kind \in {"FullConsistency", "AtLeastAsFresh"} ->
            row.created_xid < nextXid /\ row.deleted_xid >= nextXid
      [] req.kind = "ExactlyAt" -> VisibleAt(row, PointOf(req.zookie))
      [] OTHER -> TRUE

\* The edges leaving the object that a read with the requirement selects, and
\* of those the edges whose target object the same requirement selects.
EdgesUnder(from_id, req) ==
    {t \in triples : t.from_id = from_id /\ t.relation \in Relations
                        /\ VisibleUnder(t, req)}
Reachable(t, req) == \E o \in objects : o.id = t.to_id /\ VisibleUnder(o, req)

\* The modes in which a read was answered as the claim on edge reads says.
EdgeReadAnswered(kinds) ==
    (resp.rpc \in {"GetEdge", "GetEdges"} /\ resp.requirement.kind \in kinds) =>
    LET req   == resp.requirement
        edges == EdgesUnder(resp.object_id, req)
    IN  /\ \A x \in resp.objects :
              \E t \in edges : x.edge_id = t.id /\ x.id = t.to_id /\ Reachable(t, req)
        /\ resp.rpc = "GetEdges" =>
              /\ resp.status = "OK"
              /\ \A t \in edges :
                    Reachable(t, req) => \E x \in resp.objects : x.edge_id = t.id
        /\ resp.rpc = "GetEdge" =>
              /\ resp.status \in {"OK", "NotFound"}
              /\ resp.status = "OK" <=> Cardinality(resp.objects) = 1
              /\ edges = {} => resp.status = "NotFound"
              /\ (resp.status = "NotFound" /\ edges # {}) =>
                    \E t \in edges : ~Reachable(t, req)

\* C28: GetEdges returns one target object per edge that is visible under the
\* mode and whose target object is visible under the same mode, skipping the
\* edges whose target is missing; GetEdge answers NotFound when no edge
\* matches or when the matching edge's target is missing, and the target
\* otherwise.
C28_EdgeReadsSkipMissingTargets ==
    EdgeReadAnswered({"FullConsistency", "MinimizeLatency", "absent",
                      "AtLeastAsFresh", "ExactlyAt"})

\* ------------------------------------------------- edges are never merged
\* The CreateEdge calls that were answered with a revision, and the edges
\* get_edges returns at FullConsistency, for any key.
EdgesCreated == {i \in 1..Len(minted) : minted[i].rpc = "CreateEdge"}
EdgesReturned ==
    UNION {get_edges(from, rel, FullMode, nextXid) :
              from \in ObjectIds, rel \in Relations}

\* C29: CreateEdge never deduplicates and never checks endpoints: the calls
\* answered so far created as many edges, with distinct ids, whatever their
\* key, all returned by get_edges at FullConsistency; and an authenticated
\* CreateEdge is answered OK whether or not from_id and to_id name objects.
C29_EdgesNeverMerged ==
    /\ \A i \in EdgesCreated, j \in EdgesCreated : i # j => minted[i].id # minted[j].id
    /\ \A i \in EdgesCreated : \E t \in EdgesReturned : t.id = minted[i].id
    /\ Cardinality(EdgesReturned) = Cardinality(EdgesCreated)
    /\ (resp.rpc = "CreateEdge" /\ resp.token \in Principals) => resp.status = "OK"

\* Two CreateEdge calls with the same key were answered, the first before
\* the object the key names existed.
C29_Witness ==
    /\ Cardinality(EdgesCreated) = 2
    /\ \A s \in EdgesReturned, t \in EdgesReturned :
          s.from_id = t.from_id /\ s.relation = t.relation /\ s.to_id = t.to_id
    /\ \E t \in EdgesReturned : \A o \in objects :
          o.id \in {t.from_id, t.to_id} => o.created_xid > t.created_xid
    /\ resp.rpc = "CreateEdge"

\* ------------------------------------------------- an edge read at its creation
\* The edge a CreateEdge call created, as the store holds it now.
EdgeOf(i) == {t \in triples : t.id = minted[i].id}

\* GetEdge answered with the metadata m for the key of the edge t.
AnsweredEdge(t, m) ==
    /\ resp.status = "OK"
    /\ \E x \in resp.objects : x.edge_id = t.id /\ x.metadata = m

\* C30: after an edge created with revision r0 has had its metadata updated
\* any number of times (the service has no call that updates an edge, so the
\* number is zero), GetEdge at ExactlyAt(r0) returns the edge with the
\* metadata it was created with, and GetEdge at FullConsistency returns the
\* edge with the metadata written last.
C30_EdgeReadAtCreation ==
    \A i \in EdgesCreated : \A t \in EdgeOf(i) :
        (resp.rpc = "GetEdge" /\ resp.object_id = t.from_id) =>
            /\ resp.requirement =
                    Requirement("ExactlyAt", to_zookie(minted[i].revision))
                  => AnsweredEdge(t, minted[i].metadata)
            /\ resp.requirement.kind = "FullConsistency"
                  => AnsweredEdge(t, t.metadata)

\* ------------------------------------------------- the requirement of a read
\* The mode a requirement stands for, or "rejected" when its zookie is no
\* encoding of a revision.
ModeOf(req) ==
    CASE req.kind = "FullConsistency" -> [kind |-> "Full", revision |-> NoRevision]
      [] req.kind \in {"AtLeastAsFresh", "ExactlyAt"} ->
            IF Decodes(req.zookie)
            THEN [kind |-> req.kind,
                  revision |-> [snapshot |-> SnapshotOf(req.zookie),
                                optional_xid |-> req.zookie.value[4]]]
            ELSE [kind |-> "rejected", revision |-> NoRevision]
      [] OTHER -> [kind |-> "MinimizeLatency", revision |-> NoRevision]

\* C31: parse_consistency_requirement maps FullConsistency(true) to Full,
\* MinimizeLatency(true) to MinimizeLatency, AtLeastAsFresh(z) and ExactlyAt(z)
\* to the mode carrying the decoded revision, an absent requirement to
\* MinimizeLatency, and a zookie that does not decode to InvalidArgument; the
\* read that carried it is answered without an access to the store.
C31_RequirementParsed ==
    /\ \A req \in WireRequirements :
          LET parsed == parse_consistency_requirement(req)
          IN  IF ModeOf(req).kind = "rejected"
              THEN ~parsed.ok
              ELSE parsed.ok /\ parsed.mode = ModeOf(req)
    /\ resp.rpc \in {"GetObject", "GetEdge", "GetEdges"} =>
          /\ resp.status = "InvalidArgument" <=> ModeOf(resp.requirement).kind = "rejected"
          /\ resp.status = "InvalidArgument" => ~resp.store

\* A read of an object that exists carried a zookie that does not decode.
C31_Witness ==
    /\ resp.rpc = "GetObject"
    /\ resp.requirement.kind \in {"AtLeastAsFresh", "ExactlyAt"}
    /\ ~Decodes(resp.requirement.zookie)
    /\ resp.status = "InvalidArgument"
    /\ \E o \in objects : o.id = resp.object_id

\* ------------------------------------------------- schema bodies
\* The schema string is JSON and a well-formed JSON-Schema.
WellFormedBody(s) == s.json /\ s.compiles

\* C32: CreateSchema with a valid type_name and a body that is not JSON, or is
\* JSON but no well-formed JSON-Schema, returns InvalidArgument and registers
\* no schema.
C32_BadBodyInvalidArgument ==
    [][\A t \in Tokens, ty \in TypeNames, s \in SchemaTexts :
          (~WellFormedBody(s) /\ SchemaService_create_schema(t, ty, s))
              => (resp'.status = "InvalidArgument" /\ schemata' = schemata)]_vars

\* ------------------------------------------------- type names
\* The name is not empty and matches ^[A-Za-z][A-Za-z0-9_]*$, read off its
\* characters: "a" stands for a letter, "0" for a digit.
RECURSIVE WordChars(_)
WordChars(c) ==
    IF c = <<>> THEN TRUE
    ELSE Head(c) \in {"a", "0", "_"} /\ WordChars(Tail(c))
NameMatches(n) ==
    LET c == Spelling[n]
    IN  c # <<>> /\ Head(c) = "a" /\ WordChars(Tail(c))

Registered(n) == \E r \in schemata : r.type_name = n

RefusedDuplicate ==
    /\ resp.rpc = "CreateSchema"
    /\ resp.status # "OK"
    /\ \E r \in schemata : r.xmin + 1 < nextXid

\* C34: after any sequence of CreateSchema calls at most one schema exists per
\* type_name: a CreateSchema for a registered type_name fails and leaves the
\* registered body as it is, and no registered schema ever changes, so the
\* validation of the type keeps using the first schema.
C34_OneSchemaPerType ==
    /\ [](\A r \in schemata, q \in schemata : r.type_name = q.type_name => r = q)
    /\ [][/\ \A r \in schemata : r \in schemata'
          /\ \A n \in TypeNames \cup InvalidTypeNames \cup SampledTypeNames,
                s \in SampledSchemaTexts :
                (Registered(n) /\ SchemaService_create_schema("alice", n, s))
                    => (resp'.status # "OK" /\ schemata' = schemata)]_vars

\* A type is registered with the first body, and a call that carried a type
\* already registered was refused.
C34_Witness ==
    /\ RefusedDuplicate
    /\ \E r \in schemata : r.type_name = "basic" /\ r.schema = {"m0"}
    /\ Cardinality(schemata) = 1

\* ------------------------------------------------- the token verifier
\* The header carries a token the validator v accepts.
SignedFor(header, v) ==
    /\ header.present /\ ~header.expired
    /\ header.key = v.decoding_key /\ header.iss = v.issuer

JustUpdated ==
    /\ Len(minted') = Len(minted) + 1
    /\ minted'[Len(minted')].rpc = "UpdateObject"
UpdateTid == minted'[Len(minted')].revision.optional_xid
UpdatedId == minted'[Len(minted')].id

\* The version v as the step leaves it.
After(v) ==
    {w \in object_metadata_history' :
        /\ w.object_id = v.object_id
        /\ w.created_xid = v.created_xid
        /\ w.metadata = v.metadata}

\* C36: update_object with tid T changes only deleted_xid of the object's
\* versions that had deleted_xid = MAX_TXID, setting it to T, and appends one
\* version with created_xid = T and deleted_xid = MAX_TXID; it never changes
\* the body or created_xid of a version, never removes one, and never touches
\* the versions of other objects.
C36_UpdateFrame ==
    [][JustUpdated =>
          /\ \A v \in object_metadata_history :
                \/ v \in object_metadata_history'
                \/ /\ v.object_id = UpdatedId
                   /\ v.deleted_xid = MAX_TXID
                   /\ After(v) = {[v EXCEPT !.deleted_xid = UpdateTid]}
          /\ \A v \in object_metadata_history :
                v.object_id # UpdatedId => v \in object_metadata_history'
          /\ \E n \in object_metadata_history' \ object_metadata_history :
                /\ n.object_id = UpdatedId
                /\ n.created_xid = UpdateTid
                /\ n.deleted_xid = MAX_TXID
                /\ \A w \in object_metadata_history' :
                      w.created_xid = UpdateTid => w = n
          /\ Cardinality(object_metadata_history')
                = Cardinality(object_metadata_history) + 1]_vars

\* Two objects exist, and one of them has just been updated a second time.
C36_Witness ==
    /\ \E id \in 1..MaxObjects : Cardinality(VersionsOf(id)) = 3
    /\ \E id \in 1..MaxObjects : Cardinality(VersionsOf(id)) = 1
    /\ resp.rpc = "UpdateObject" /\ resp.status = "OK"

\* ------------------------------------------------- the revision of a write
\* A write RPC answered OK in this step.
WriteAnswered ==
    /\ resp' # resp
    /\ resp'.rpc \in {"CreateObject", "UpdateObject", "CreateEdge"}
    /\ resp'.status = "OK"

\* The rows of a table the step inserted: those that continue no row the
\* table held, whatever the step did to deleted_xid.
InsertedObjects ==
    {o \in objects' : \A p \in objects : p.id # o.id}
InsertedVersions ==
    {w \in object_metadata_history' :
        \A v \in object_metadata_history :
            ~(/\ v.object_id = w.object_id
              /\ v.created_xid = w.created_xid
              /\ v.metadata = w.metadata)}
InsertedEdges ==
    {t \in triples' : \A u \in triples : u.id # t.id}

\* How many rows of each table each write inserts.
InsertCounts(rpc) ==
    CASE rpc = "CreateObject" -> <<1, 1, 0>>
      [] rpc = "UpdateObject" -> <<0, 1, 0>>
      [] OTHER                -> <<0, 0, 1>>

\* C37: every successful CreateObject, UpdateObject and CreateEdge response
\* carries a revision whose xid is the created_xid of every row the write
\* inserted (object row and first metadata version; new metadata version;
\* edge row), each of them inserted with deleted_xid = MAX_TXID.
C37_RevisionStampsRows ==
    [][WriteAnswered =>
          LET carried == from_zookie(resp'.revision)
              rows    == InsertedObjects \cup InsertedVersions \cup InsertedEdges
          IN  /\ resp'.revision # NoZookie
              /\ carried.ok
              /\ <<Cardinality(InsertedObjects), Cardinality(InsertedVersions),
                    Cardinality(InsertedEdges)>> = InsertCounts(resp'.rpc)
              /\ \A r \in rows :
                    /\ r.created_xid = carried.revision.optional_xid
                    /\ r.deleted_xid = MAX_TXID]_vars

\* The three writes have been answered, the update while another transaction
\* had taken an xid after its snapshot.
C37_Witness ==
    /\ {minted[i].rpc : i \in 1..Len(minted)}
            = {"CreateObject", "UpdateObject", "CreateEdge"}
    /\ resp.rpc = "UpdateObject" /\ resp.status = "OK"
    /\ from_zookie(resp.revision).revision.optional_xid
            > from_zookie(resp.revision).revision.snapshot.xmax

\* ------------------------------------------------- well-formed version chains
\* C38: in every reachable state, also after updates whose transactions
\* overlapped, every metadata version has created_xid < deleted_xid and every
\* object has exactly one version with deleted_xid = MAX_TXID.
C38_ChainsWellFormed ==
    /\ \A v \in object_metadata_history : v.created_xid < v.deleted_xid
    /\ \A o \in objects :
          Cardinality({v \in object_metadata_history :
                          v.object_id = o.id /\ v.deleted_xid = MAX_TXID}) = 1

\* ------------------------------------------------- reads and the snapshot
\* The xids the snapshot lists as in progress.
InProgressIn(snap) == {snap.xip_list[i] : i \in 1..Len(snap.xip_list)}

\* The created_xid of the rows an answered read returned: the objects row and
\* the metadata version behind a GetObject answer, the edges behind an edge
\* read's entries.
ReturnedCreatedXids ==
    IF resp.rpc = "GetObject"
    THEN {o.created_xid : o \in {p \in objects :
                p.id = resp.object_id /\ VisibleUnder(p, resp.requirement)}}
         \cup {v.created_xid : v \in {w \in VersionsOf(resp.object_id) :
                VisibleUnder(w, resp.requirement) /\ w.metadata = resp.metadata}}
    ELSE {t.created_xid : t \in {u \in triples : \E x \in resp.objects : x.edge_id = u.id}}

\* C39: a read at ExactlyAt(rev) never returns a row that rev's snapshot does
\* not see: no returned row has its created_xid in rev.snapshot.xip_list.
C39_ExactlyAtSkipsInProgress ==
    (/\ resp.rpc \in {"GetObject", "GetEdge", "GetEdges"}
     /\ resp.requirement.kind = "ExactlyAt"
     /\ resp.status = "OK")
    => ReturnedCreatedXids \cap InProgressIn(SnapshotOf(resp.requirement.zookie)) = {}

\* ------------------------------------------------- completion keeps the rules
\* The caller completed an xid in this step.
JustCompleted == held_snapshot.ok /\ Len(completed_xids') = Len(completed_xids) + 1
CompletedXid == completed_xids'[Len(completed_xids')]

\* C40: mark_complete keeps a snapshot well formed and never moves its bounds
\* backwards: if xmin <= xmax and xip_list is strictly increasing within
\* [xmin, xmax), the same holds for the result, the result's xmin and xmax
\* are at least the input's, xmax = xid + 1 when xid >= the input's xmax, and
\* xmin = xmax when the resulting xip_list is empty.
C40_CompletionKeepsRules ==
    [][(JustCompleted /\ SnapshotRules(held_snapshot)) =>
          /\ SnapshotRules(held_snapshot')
          /\ held_snapshot'.xmin >= held_snapshot.xmin
          /\ held_snapshot'.xmax >= held_snapshot.xmax
          /\ CompletedXid >= held_snapshot.xmax
                => held_snapshot'.xmax = CompletedXid + 1
          /\ held_snapshot'.xip_list = <<>>
                => held_snapshot'.xmin = held_snapshot'.xmax]_vars

\* A well-formed snapshot with two xids in progress had one of them completed
\* and then an xid at or past its xmax: one xid is left in the list, xmax
\* moved and xmin stayed below it.
C40_Witness ==
    /\ held_snapshot.ok
    /\ SnapshotRules(Parsed) /\ Len(Parsed.xip_list) = 2
    /\ Len(completed_xids) = 2
    /\ Among(Parsed.xip_list, completed_xids[1])
    /\ held_snapshot.xip_list # <<>>
    /\ completed_xids[2] >= Parsed.xmax
    /\ held_snapshot.xmax = completed_xids[2] + 1
    /\ held_snapshot.xmin < held_snapshot.xmax

====
